---- MODULE Spec2Model ----
(***************************************************************************)
(* Model of three sg3_utils command line utilities:                        *)
(*   sg_simple1  (src/sg_simple1.c)       INQUIRY + TEST UNIT READY         *)
(*   sg_readcap  (src/src/sg_readcap.c)   READ CAPACITY (10) / (16)         *)
(*   sg_requests (src/unnamed/part_001)   REQUEST SENSE                     *)
(*                                                                         *)
(* One behaviour is one run of one utility.  The state holds the command   *)
(* line, the position in main(), main's locals, and a log of the system    *)
(* and library calls made on the device (open, ioctl, SCSI command, close) *)
(* together with what was written to stdout.  Every call whose result is   *)
(* decided by the device or the operating system draws that result from a  *)
(* small set.                                                              *)
(***************************************************************************)
EXTENDS Integers, Sequences, FiniteSets, TLC

VARIABLES
    prog,        \* which utility runs
    argv,        \* argv[1..argc-1], each element a sequence of characters
    env_old,     \* TRUE iff SG3_UTILS_OLD_OPTS is set in the environment
    pc,          \* position in main()
    op,          \* the options (struct opts_t / main's option locals)
    loc,         \* main's other locals
    sg_fd,       \* the descriptor variable of main
    ret,         \* the pending return value of main
    calls,       \* log of the calls made on the device, oldest first
    out,         \* what was written to stdout, oldest first
    js,          \* the JSON name/value pairs emitted (sg_readcap)
    exit_status  \* the process exit status, NoExit while running

vars == <<prog, argv, env_old, pc, op, loc, sg_fd, ret, calls, out, js,
          exit_status>>

\* ------------------------------------------------------------------ bounds

\* the largest number of option arguments on a command line
MaxOpts == 2

\* ------------------------------------------------- constants of the programs

NoExit == -1000

\* exit statuses and sense categories (sg_lib.h values, named as in the source)
SG_LIB_SYNTAX_ERROR == 1
SG_LIB_CAT_NOT_READY == 2
SG_LIB_CAT_MEDIUM_HARD == 3
SG_LIB_CAT_ILLEGAL_REQ == 5
SG_LIB_CAT_UNIT_ATTENTION == 6
SG_LIB_CAT_INVALID_OP == 9
SG_LIB_FILE_ERROR == 15
SG_LIB_CAT_NO_SENSE == 20
SG_LIB_CAT_RECOVERED == 21
SG_LIB_CONTRADICT == 31
SG_LIB_TRANSPORT_ERROR == 35
SG_LIB_OS_BASE_ERR == 50
SG_LIB_CAT_OTHER == 99

\* errno values an open or a close can fail with
ENOENT == 2
EACCES == 13
EBADF == 9
ENOMEM == 12

\* the descriptor number the kernel hands out (the lowest free one)
FirstFd == 3

\* ------------------------------------------------------------ call log

\* One entry of the call log.  call is "open", "close", "ioctl", "file" or
\* "cmd"; name is the SCSI command (or ioctl) name; ro tells how an open was
\* asked for; fd is the descriptor used (for an open: the value returned);
\* id is the packet id; r is the result class of the call:
\*   "clean"        the command completed without error
\*   "recovered"    the command completed with a recovered error
\*   "error_cat"    the command completed in another error category
\*   "syscall_fail" the submitting call itself failed
\*   "ok" / "fail"  for the calls that are not commands
\* res is the number the call returned, where the program looks at one, and
\* cdb the command descriptor block, where main() builds it.
Call(c, n, ro, fd, id, r, res) ==
    [call |-> c, name |-> n, ro |-> ro, fd |-> fd, id |-> id, r |-> r,
     res |-> res, cdb |-> <<>>]

OpenCall(ro, fd) ==
    Call("open", "", ro, fd, 0, IF fd >= 0 THEN "ok" ELSE "fail", fd)
CloseCall(fd, res) ==
    Call("close", "", FALSE, fd, 0, IF res >= 0 THEN "ok" ELSE "fail", res)
CmdCall(n, fd, id, r, res) == Call("cmd", n, FALSE, fd, id, r, res)

\* One line (or block) written to stdout: a tag and the values printed in
\* it, each a sequence of characters (of bytes for a dump).
OutVals(t, vals) == [line |-> t, v |-> vals]
OutLine(t, a, b) == OutVals(t, <<a, b>>)
Line(t) == OutVals(t, <<>>)

IsOkOpen(e) == e.call = "open" /\ e.fd >= 0
IsClose(e) == e.call = "close"
IsCmd(e) == e.call = "cmd"
IsOpen(e) == e.call = "open"

\* Number of descriptors open after the first n calls of the log.
OpenAfter(s, n) ==
    Cardinality({i \in 1..n : IsOkOpen(s[i])})
    - Cardinality({i \in 1..n : IsClose(s[i])})

\* ------------------------------------------------ fixed width numbers

\* An unsigned number of fixed width is a sequence of 16 bit limbs, most
\* significant first: two limbs for uint32_t, four for uint64_t.
Limb == 65536

U32(n) == <<n \div Limb, n % Limb>>
U64(n) == <<0, 0, n \div Limb, n % Limb>>
U32_MAX == <<Limb - 1, Limb - 1>>

\* s * m + d on limbs, wrapping at the width of s (m, d small)
RECURSIVE MulAdd(_, _, _)
MulAdd(s, m, d) ==
    IF s = <<>> THEN <<>>
    ELSE LET n == Len(s)
             t == s[n] * m + d
         IN Append(MulAdd(SubSeq(s, 1, n - 1), m, t \div Limb), t % Limb)

\* s + 1, wrapping at the width of s
PlusOne(s) == MulAdd(s, 1, 1)

IsZero(s) == \A i \in 1..Len(s) : s[i] = 0

\* s > 0xfffffffe for a uint64_t s
AboveFFFFFFFE(s) == s[1] > 0 \/ s[2] > 0 \/ (s[3] = Limb - 1 /\ s[4] = Limb - 1)

\* (unsigned int) of a uint64_t
LowU32(s) == <<s[3], s[4]>>

HexDigits == <<"0", "1", "2", "3", "4", "5", "6", "7", "8", "9",
               "a", "b", "c", "d", "e", "f">>

DigitValue(ch) == CHOOSE v \in 0..15 : HexDigits[v + 1] = ch
IsDecDigit(ch) == \E v \in 0..9 : HexDigits[v + 1] = ch
IsHexDigit(ch) == \E v \in 0..15 : HexDigits[v + 1] = ch

\* The four hex digits of one limb
LimbHex(x) == <<HexDigits[(x \div 4096) + 1], HexDigits[((x \div 256) % 16) + 1],
                HexDigits[((x \div 16) % 16) + 1], HexDigits[(x % 16) + 1]>>

RECURSIVE AllHex(_)
AllHex(s) == IF s = <<>> THEN <<>> ELSE LimbHex(Head(s)) \o AllHex(Tail(s))

RECURSIVE StripZeros(_)
StripZeros(cs) ==
    IF Len(cs) > 1 /\ Head(cs) = "0" THEN StripZeros(Tail(cs)) ELSE cs

\* printf("%x") of a fixed width number: hex digits, no leading zeros
FormatHex(s) == StripZeros(AllHex(s))

\* The value of a sequence of bytes taken big endian, as limbs.  The number
\* of bytes is even.
RECURSIVE BytesToLimbs(_)
BytesToLimbs(bs) ==
    IF bs = <<>> THEN <<>>
    ELSE <<bs[1] * 256 + bs[2]>> \o BytesToLimbs(SubSeq(bs, 3, Len(bs)))

\* sg_get_unaligned_be32(p + off), sg_get_unaligned_be64(p + off)
sg_get_unaligned_be32(buf, off) == BytesToLimbs(SubSeq(buf, off + 1, off + 4))
sg_get_unaligned_be64(buf, off) == BytesToLimbs(SubSeq(buf, off + 1, off + 8))

\* ------------------------------------------------------ number parsing

\* The null pointer, where a string is expected
NULL == <<"(null)">>

RECURSIVE ParseDigits(_, _, _)
ParseDigits(cs, base, acc) ==
    IF cs = <<>> THEN acc
    ELSE ParseDigits(Tail(cs), base, MulAdd(acc, base, DigitValue(Head(cs))))

\* The longest prefix of cs made of hex digits
RECURSIVE HexPrefix(_)
HexPrefix(cs) ==
    IF cs # <<>> /\ IsHexDigit(Head(cs)) THEN <<Head(cs)>> \o HexPrefix(Tail(cs))
    ELSE <<>>

\* sg_get_llnum() on a decimal string: [ok, v]; ok = FALSE stands for -1
sg_get_llnum(cs) ==
    IF cs # <<>> /\ cs # NULL /\ \A i \in 1..Len(cs) : IsDecDigit(cs[i])
    THEN [ok |-> TRUE, v |-> ParseDigits(cs, 10, U64(0))]
    ELSE [ok |-> FALSE, v |-> U64(0)]

\* sscanf(cs, "%llx"): [num, v], num the number of items converted
ScanHex64(cs) ==
    LET h == HexPrefix(cs) IN
    IF h = <<>> THEN [num |-> 0, v |-> U64(0)]
    ELSE [num |-> 1, v |-> ParseDigits(h, 16, U64(0))]

\* sg_get_num() on a decimal string with an optional sign: -1 on error
sg_get_num(cs) ==
    IF cs # <<>> /\ cs # NULL /\ \A i \in 1..Len(cs) : IsDecDigit(cs[i])
    THEN LET v == ParseDigits(cs, 10, U32(0)) IN v[1] * Limb + v[2]
    ELSE -1

\* ------------------------------------------------------------- getopt

\* getopt_long() over a command line.  Short options come from three sets
\* (no argument, required argument, optional argument); long options from a
\* table of [name, has_arg, val].  The result is the sequence of (c, optarg)
\* pairs getopt_long returns before -1, and the arguments left from optind.

IsOption(tok) == Len(tok) >= 2 /\ tok[1] = "-"
IsLongOption(tok) == Len(tok) >= 3 /\ tok[1] = "-" /\ tok[2] = "-"

\* index of the first "=" of tok, or Len(tok) + 1
EqualsAt(tok) ==
    IF \E i \in 1..Len(tok) : tok[i] = "="
    THEN CHOOSE i \in 1..Len(tok) :
            tok[i] = "=" /\ \A j \in 1..(i - 1) : tok[j] # "="
    ELSE Len(tok) + 1

LongName(tok) == SubSeq(tok, 3, EqualsAt(tok) - 1)
LongHasValue(tok) == EqualsAt(tok) <= Len(tok)
LongValue(tok) == SubSeq(tok, EqualsAt(tok) + 1, Len(tok))

Opt(c, optarg) == [c |-> c, optarg |-> optarg]

\* One long option: the pair getopt_long returns for it
GetoptLongOne(tok, longopts) ==
    LET hits == {lo \in longopts : lo.name = LongName(tok)} IN
    IF hits = {} THEN Opt("?", NULL)
    ELSE LET lo == CHOOSE x \in hits : TRUE IN
         IF lo.has_arg = "no"
         THEN (IF LongHasValue(tok) THEN Opt("?", NULL) ELSE Opt(lo.val, NULL))
         ELSE IF lo.has_arg = "required"
         THEN (IF LongHasValue(tok) THEN Opt(lo.val, LongValue(tok))
               ELSE Opt("?", NULL))
         ELSE (IF LongHasValue(tok) THEN Opt(lo.val, LongValue(tok))
               ELSE Opt(lo.val, NULL))

\* so is [none, req, opt]: the three sets of short option characters.
\* i is the argument looked at and j the character in it (0: its start);
\* opts and words are the results so far.
RECURSIVE GetoptFrom(_, _, _, _, _, _, _)
GetoptFrom(av, i, j, so, longopts, opts, words) ==
    IF i > Len(av) THEN [opts |-> opts, words |-> words]
    ELSE IF j = 0 THEN
        IF ~IsOption(av[i])
        THEN GetoptFrom(av, i + 1, 0, so, longopts, opts, Append(words, av[i]))
        ELSE IF av[i] = <<"-", "-">>
        THEN [opts |-> opts, words |-> words \o SubSeq(av, i + 1, Len(av))]
        ELSE IF IsLongOption(av[i])
        THEN GetoptFrom(av, i + 1, 0, so, longopts,
                        Append(opts, GetoptLongOne(av[i], longopts)), words)
        ELSE GetoptFrom(av, i, 2, so, longopts, opts, words)
    ELSE IF av[i][j] \in so.none
    THEN GetoptFrom(av, IF j < Len(av[i]) THEN i ELSE i + 1,
                    IF j < Len(av[i]) THEN j + 1 ELSE 0, so, longopts,
                    Append(opts, Opt(av[i][j], NULL)), words)
    ELSE IF av[i][j] \in so.req
    THEN IF j < Len(av[i])
         THEN GetoptFrom(av, i + 1, 0, so, longopts,
                         Append(opts, Opt(av[i][j],
                                          SubSeq(av[i], j + 1, Len(av[i])))),
                         words)
         ELSE IF i + 1 <= Len(av)
         THEN GetoptFrom(av, i + 2, 0, so, longopts,
                         Append(opts, Opt(av[i][j], av[i + 1])), words)
         ELSE [opts |-> Append(opts, Opt("?", NULL)), words |-> words]
    ELSE IF av[i][j] \in so.opt
    THEN GetoptFrom(av, i + 1, 0, so, longopts,
                    Append(opts, Opt(av[i][j],
                                     IF j < Len(av[i])
                                     THEN SubSeq(av[i], j + 1, Len(av[i]))
                                     ELSE NULL)),
                    words)
    ELSE GetoptFrom(av, IF j < Len(av[i]) THEN i ELSE i + 1,
                    IF j < Len(av[i]) THEN j + 1 ELSE 0, so, longopts,
                    Append(opts, Opt("?", NULL)), words)

Getopt(av, so, longopts) == GetoptFrom(av, 1, 0, so, longopts, <<>>, <<>>)

\* ------------------------------------------------------------ sg_simple1

\* Outcome classes of sg_err_category3()
S1_Categories == {"SG_ERR_CAT_CLEAN", "SG_ERR_CAT_RECOVERED",
                  "SG_ERR_CAT_MEDIA_CHANGED", "SG_ERR_CAT_SENSE"}

\* Result class of a command of sg_simple1 whose ioctl returned, by category
S1_Class(cat) ==
    IF cat = "SG_ERR_CAT_CLEAN" THEN "clean"
    ELSE IF cat = "SG_ERR_CAT_RECOVERED" THEN "recovered"
    ELSE "error_cat"

\* The argument loop of main: returns [file_name, do_extra], file_name = <<>>
\* standing for the null pointer.
RECURSIVE S1_ParseArgs(_, _, _, _)
S1_ParseArgs(av, k, file_name, do_extra) ==
    IF k > Len(av) THEN [file_name |-> file_name, do_extra |-> do_extra]
    ELSE IF Len(av[k]) >= 2 /\ av[k][1] = "-" /\ av[k][2] = "x"
        THEN S1_ParseArgs(av, k + 1, file_name, 1)
    ELSE IF av[k][1] = "-"
        THEN [file_name |-> <<>>, do_extra |-> do_extra]
    ELSE IF file_name = <<>>
        THEN S1_ParseArgs(av, k + 1, av[k], do_extra)
    ELSE [file_name |-> <<>>, do_extra |-> do_extra]

\* Whether a category lets main treat the command as having worked.
S1_Ok(cat) == cat \in {"SG_ERR_CAT_CLEAN", "SG_ERR_CAT_RECOVERED"}

S1_Parse ==
    /\ prog = "sg_simple1" /\ pc = "parse"
    /\ LET p == S1_ParseArgs(argv, 1, <<>>, 0) IN
        /\ op' = p
        /\ IF p.file_name = <<>>
           THEN /\ out' = Append(out, Line("usage"))
                /\ pc' = "done" /\ exit_status' = 1
           ELSE /\ pc' = "open"
                /\ UNCHANGED <<out, exit_status>>
    /\ UNCHANGED <<prog, argv, env_old, loc, sg_fd, ret, calls, js>>

S1_Open ==
    /\ prog = "sg_simple1" /\ pc = "open"
    /\ \E fd \in {FirstFd, -ENOENT} :
        /\ calls' = Append(calls, OpenCall(TRUE, fd))
        /\ sg_fd' = fd
        /\ IF fd < 0
           THEN pc' = "done" /\ exit_status' = 1
           ELSE pc' = "version" /\ UNCHANGED exit_status
    /\ UNCHANGED <<prog, argv, env_old, op, loc, ret, out, js>>

\* ioctl(SG_GET_VERSION_NUM): fails, or yields an old or a new version
S1_Version ==
    /\ prog = "sg_simple1" /\ pc = "version"
    /\ \E r \in {"fail", "old", "new"} :
        /\ calls' = Append(calls, Call("ioctl", "SG_GET_VERSION_NUM", FALSE,
                                       sg_fd, 0,
                                       IF r = "fail" THEN "fail" ELSE "ok",
                                       IF r = "fail" THEN -1 ELSE 0))
        /\ IF r # "new"
           THEN /\ out' = Append(out, Line("not_new_sg"))
                /\ ret' = 1 /\ pc' = "close"
           ELSE /\ pc' = "inquiry" /\ UNCHANGED <<out, ret>>
    /\ UNCHANGED <<prog, argv, env_old, op, loc, sg_fd, js, exit_status>>

\* What main prints after a command that was submitted, given its category
S1_Report(cmd, cat) ==
    IF cat = "SG_ERR_CAT_CLEAN" THEN <<>>
    ELSE IF cat = "SG_ERR_CAT_RECOVERED" THEN <<OutLine("recovered", cmd, <<>>)>>
    ELSE <<OutLine("command_error", cmd, <<>>)>>

\* A check of the ioctl's result that never sees a failure
S1_ioctl_failed_never(r) == FALSE

\* main(): "if (ioctl(sg_fd, SG_IO, &io_hdr) < 0)"
S1_ioctl_failed(r) == r = "ioctl_fail"

S1_Inquiry ==
    /\ prog = "sg_simple1" /\ pc = "inquiry"
    /\ \E r \in {"ioctl_fail"} \cup S1_Categories :
        /\ calls' = Append(calls, CmdCall("INQUIRY", sg_fd, 0,
                                 IF r = "ioctl_fail" THEN "syscall_fail"
                                 ELSE S1_Class(r),
                                 IF r = "ioctl_fail" THEN -1 ELSE 0))
        /\ IF S1_ioctl_failed(r)
           THEN /\ ret' = 1 /\ pc' = "close"
                /\ UNCHANGED <<out, loc>>
           ELSE /\ loc' = [loc EXCEPT !.ok = IF S1_Ok(r) THEN 1 ELSE 0]
                /\ out' = out \o S1_Report(<<"INQUIRY">>, r)
                          \o (IF S1_Ok(r) THEN <<Line("inquiry_results")>> ELSE <<>>)
                          \o (IF S1_Ok(r) /\ op.do_extra = 1
                              THEN <<Line("inquiry_extra")>> ELSE <<>>)
                /\ pc' = "tur" /\ UNCHANGED ret
    /\ UNCHANGED <<prog, argv, env_old, op, sg_fd, js, exit_status>>

S1_Tur ==
    /\ prog = "sg_simple1" /\ pc = "tur"
    /\ \E r \in {"ioctl_fail"} \cup S1_Categories :
        /\ calls' = Append(calls, CmdCall("TEST UNIT READY", sg_fd, 0,
                                 IF r = "ioctl_fail" THEN "syscall_fail"
                                 ELSE S1_Class(r),
                                 IF r = "ioctl_fail" THEN -1 ELSE 0))
        /\ IF S1_ioctl_failed(r)
           THEN /\ ret' = 1 /\ pc' = "close"
                /\ UNCHANGED <<out, loc>>
           ELSE /\ loc' = [loc EXCEPT !.ok = IF S1_Ok(r) THEN 1 ELSE 0]
                /\ out' = out \o S1_Report(<<"TEST UNIT READY">>, r)
                          \o (IF S1_Ok(r) THEN <<Line("tur_ready")>>
                              ELSE <<Line("tur_not_ready")>>)
                          \o (IF op.do_extra = 1 THEN <<Line("tur_extra")>> ELSE <<>>)
                /\ ret' = 0 /\ pc' = "close"
    /\ UNCHANGED <<prog, argv, env_old, op, sg_fd, js, exit_status>>

\* close(sg_fd) followed by the return; the result of close is not looked at
S1_Close ==
    /\ prog = "sg_simple1" /\ pc = "close"
    /\ \E r \in {0, -1} :
        calls' = Append(calls, CloseCall(sg_fd, r))
    /\ pc' = "done" /\ exit_status' = ret
    /\ UNCHANGED <<prog, argv, env_old, op, loc, sg_fd, ret, out, js>>

\* ------------------------------------------------------------ sg_readcap

RCAP_REPLY_LEN == 8
RCAP16_REPLY_LEN == 32

\* struct opts_t after memset(op, 0, sizeof(opts))
RC_Op0 ==
    [do_brief |-> FALSE, do_json |-> FALSE, do_long |-> FALSE,
     do_pmi |-> FALSE, do_raw |-> FALSE, o_readonly |-> FALSE,
     do_zbc |-> FALSE, opt_new |-> FALSE, verbose_given |-> FALSE,
     version_given |-> FALSE, do_help |-> 0, do_hex |-> 0, do_lba |-> 0,
     verbose |-> 0, llba |-> U64(0), device_name |-> NULL,
     inhex_fn |-> NULL, json_arg |-> NULL, js_file |-> NULL]

\* The short option string "^16bhHi:j::J:lL:NOprRTvVz" of getopt_long
RC_ShortOpts ==
    [none |-> {"^", "1", "6", "b", "h", "H", "l", "N", "O", "p", "r", "R",
               "T", "v", "V", "z"},
     req |-> {"i", "J", "L"},
     opt |-> {"j"}]

LongOpt(name, has_arg, val) == [name |-> name, has_arg |-> has_arg, val |-> val]

RC_long_options ==
    { LongOpt(<<"b", "r", "i", "e", "f">>, "no", "b"),
      LongOpt(<<"h", "e", "l", "p">>, "no", "h"),
      LongOpt(<<"h", "e", "x">>, "no", "H"),
      LongOpt(<<"i", "n", "h", "e", "x">>, "required", "i"),
      LongOpt(<<"j", "s", "o", "n">>, "optional", "^"),
      LongOpt(<<"j", "s", "-", "f", "i", "l", "e">>, "required", "J"),
      LongOpt(<<"j", "s", "_", "f", "i", "l", "e">>, "required", "J"),
      LongOpt(<<"l", "b", "a">>, "required", "L"),
      LongOpt(<<"l", "o", "n", "g">>, "no", "l"),
      LongOpt(<<"1", "6">>, "no", "l"),
      LongOpt(<<"n", "e", "w">>, "no", "N"),
      LongOpt(<<"o", "l", "d">>, "no", "O"),
      LongOpt(<<"p", "m", "i">>, "no", "p"),
      LongOpt(<<"r", "a", "w">>, "no", "r"),
      LongOpt(<<"r", "e", "a", "d", "o", "n", "l", "y">>, "no", "R"),
      LongOpt(<<"1", "0">>, "no", "T"),
      LongOpt(<<"v", "e", "r", "b", "o", "s", "e">>, "no", "v"),
      LongOpt(<<"v", "e", "r", "s", "i", "o", "n">>, "no", "V"),
      LongOpt(<<"z", "b", "c">>, "no", "z") }

StartsWith(s, p) == Len(s) >= Len(p) /\ SubSeq(s, 1, Len(p)) = p

PRes(res, o) == [res |-> res, op |-> o]

\* chk_short_opts(): a_one is a local that starts at 0 on every call
chk_short_opts(sopt_ch, o) ==
    CASE sopt_ch = "1" -> PRes(0, o)
      [] sopt_ch = "6" -> PRes(0, o)   \* a_one is 0 here
      [] sopt_ch = "b" -> PRes(0, [o EXCEPT !.do_brief = TRUE])
      [] sopt_ch \in {"h", "?"} -> PRes(0, [o EXCEPT !.do_help = @ + 1])
      [] sopt_ch = "H" -> PRes(0, [o EXCEPT !.do_hex = @ + 1])
      [] sopt_ch = "j" -> PRes(0, o)
      [] sopt_ch = "l" -> PRes(0, [o EXCEPT !.do_long = TRUE])
      [] sopt_ch = "N" -> PRes(0, o)
      [] sopt_ch = "O" -> PRes(0, [o EXCEPT !.opt_new = FALSE])
      [] sopt_ch = "p" -> PRes(0, [o EXCEPT !.do_pmi = TRUE])
      [] sopt_ch = "r" -> PRes(0, [o EXCEPT !.do_raw = TRUE])
      [] sopt_ch = "R" -> PRes(0, [o EXCEPT !.o_readonly = TRUE])
      [] sopt_ch = "T" -> PRes(0, [o EXCEPT !.do_long = FALSE])
      [] sopt_ch = "v" -> PRes(0, [o EXCEPT !.verbose_given = TRUE,
                                           !.verbose = @ + 1])
      [] sopt_ch = "V" -> PRes(0, [o EXCEPT !.version_given = TRUE])
      [] sopt_ch = "z" -> PRes(0, [o EXCEPT !.do_zbc = TRUE])
      [] OTHER -> PRes(SG_LIB_SYNTAX_ERROR, o)

\* The loop over the characters of the argument of -j in new_parse_cmd_line
RECURSIVE chk_short_opts_loop(_, _)
chk_short_opts_next(q, cs) ==
    IF q.res = SG_LIB_SYNTAX_ERROR THEN q
    ELSE chk_short_opts_loop(Tail(cs), q.op)

chk_short_opts_loop(cs, o) ==
    IF cs = <<>> THEN PRes(0, o)
    ELSE chk_short_opts_next(chk_short_opts(Head(cs), o), cs)

\* One pass of the switch of new_parse_cmd_line on the pair (c, optarg):
\* [res, op, a_one, stop], stop telling that the function returns res here
NStep(res, o, a_one, stop) ==
    [res |-> res, op |-> o, a_one |-> a_one, stop |-> stop]

\* case 'L' of that switch, nn being what sg_get_llnum(optarg) returned
new_parse_lba(nn, o, a_one) ==
    IF ~nn.ok THEN NStep(SG_LIB_SYNTAX_ERROR, o, a_one, TRUE)
    ELSE NStep(0, [o EXCEPT !.llba = nn.v,
                            !.do_long = @ \/ AboveFFFFFFFE(nn.v),
                            !.do_lba = @ + 1], a_one, FALSE)

\* the end of case 'j' of that switch, q being what the loop over
\* chk_short_opts() returned
new_parse_json_chars(q, a_one) ==
    NStep(q.res, q.op, a_one, q.res = SG_LIB_SYNTAX_ERROR)

new_parse_switch(c, optarg, o, a_one) ==
    CASE c = "1" -> NStep(0, o, a_one + 1, FALSE)
      [] c = "6" -> NStep(0, IF a_one # 0 THEN [o EXCEPT !.do_long = TRUE]
                             ELSE o, a_one, FALSE)
      [] c = "b" -> NStep(0, [o EXCEPT !.do_brief = TRUE], a_one, FALSE)
      [] c \in {"h", "?"} -> NStep(0, [o EXCEPT !.do_help = @ + 1], a_one, FALSE)
      [] c = "H" -> NStep(0, [o EXCEPT !.do_hex = @ + 1], a_one, FALSE)
      [] c = "i" -> NStep(0, [o EXCEPT !.inhex_fn = optarg], a_one, FALSE)
      [] c \in {"j", "^"} ->
            LET o1 == [o EXCEPT !.do_json = TRUE] IN
            IF optarg = NULL
            THEN NStep(0, [o1 EXCEPT !.json_arg = NULL], a_one, FALSE)
            ELSE IF c = "^"
            THEN NStep(0, [o1 EXCEPT !.json_arg = optarg], a_one, FALSE)
            ELSE IF optarg # <<>> /\ Head(optarg) = "="
            THEN NStep(0, [o1 EXCEPT !.json_arg = Tail(optarg)], a_one, FALSE)
            ELSE new_parse_json_chars(chk_short_opts_loop(optarg, o1), a_one)
      [] c = "J" -> NStep(0, [o EXCEPT !.do_json = TRUE, !.js_file = optarg],
                          a_one, FALSE)
      [] c = "l" -> NStep(0, [o EXCEPT !.do_long = TRUE], a_one, FALSE)
      [] c = "L" -> new_parse_lba(sg_get_llnum(optarg), o, a_one)
      [] c = "N" -> NStep(0, o, a_one, FALSE)
      [] c = "O" -> NStep(0, [o EXCEPT !.opt_new = FALSE], a_one, TRUE)
      [] c = "p" -> NStep(0, [o EXCEPT !.do_pmi = TRUE], a_one, FALSE)
      [] c = "r" -> NStep(0, [o EXCEPT !.do_raw = TRUE], a_one, FALSE)
      [] c = "R" -> NStep(0, [o EXCEPT !.o_readonly = TRUE], a_one, FALSE)
      [] c = "T" -> NStep(0, [o EXCEPT !.do_long = FALSE], a_one, FALSE)
      [] c = "v" -> NStep(0, [o EXCEPT !.verbose_given = TRUE,
                                      !.verbose = @ + 1], a_one, FALSE)
      [] c = "V" -> NStep(0, [o EXCEPT !.version_given = TRUE], a_one, FALSE)
      [] c = "z" -> NStep(0, [o EXCEPT !.do_zbc = TRUE], a_one, FALSE)
      [] OTHER -> IF o.do_help > 0 THEN NStep(0, o, a_one, FALSE)
                  ELSE NStep(SG_LIB_SYNTAX_ERROR, o, a_one, TRUE)

\* The while loop of new_parse_cmd_line over the options getopt_long()
\* returns; s is the outcome of the switch on the first of opts
RECURSIVE new_parse_loop(_, _, _)
new_parse_next(s, opts) ==
    IF s.stop THEN s ELSE new_parse_loop(Tail(opts), s.op, s.a_one)

new_parse_loop(opts, o, a_one) ==
    IF opts = <<>> THEN NStep(0, o, a_one, FALSE)
    ELSE new_parse_next(new_parse_switch(Head(opts).c, Head(opts).optarg,
                                         o, a_one), opts)

\* new_parse_cmd_line() after the loop: the arguments that are no options
new_parse_words(s, words) ==
    IF s.stop THEN PRes(s.res, s.op)
    ELSE IF words = <<>> THEN PRes(0, s.op)
    ELSE IF s.op.device_name = NULL
    THEN PRes(IF Len(words) - 1 > 0 THEN SG_LIB_SYNTAX_ERROR ELSE 0,
              [s.op EXCEPT !.device_name = words[1]])
    ELSE PRes(SG_LIB_SYNTAX_ERROR, s.op)

new_parse_from(g, o) == new_parse_words(new_parse_loop(g.opts, o, 0), g.words)

new_parse_cmd_line(o, av) ==
    new_parse_from(Getopt(av, RC_ShortOpts, RC_long_options), o)

\* The loop of old_parse_cmd_line over the characters of one argument that
\* starts with '-', from index j: [op, j, jmp_out, ret0] where j is where the
\* loop stopped (Len(tok) + 1 when it ran to the end) and ret0 tells that
\* the function returns 0 here ('N').
OStep(o, j, jmp_out, ret0) == [op |-> o, j |-> j, jmp_out |-> jmp_out, ret0 |-> ret0]

RECURSIVE old_parse_chars(_, _, _)
old_parse_chars(tok, j, o) ==
    IF j > Len(tok) THEN OStep(o, j, FALSE, FALSE)
    ELSE LET ch == tok[j] IN
    CASE ch = "1" ->
            IF j + 1 <= Len(tok) /\ tok[j + 1] = "6"
            THEN old_parse_chars(tok, j + 2, [o EXCEPT !.do_long = TRUE])
            ELSE OStep(o, j, TRUE, FALSE)
      [] ch = "b" -> old_parse_chars(tok, j + 1, [o EXCEPT !.do_brief = TRUE])
      [] ch \in {"h", "?"} ->
            old_parse_chars(tok, j + 1, [o EXCEPT !.do_help = @ + 1])
      [] ch = "H" -> old_parse_chars(tok, j + 1, [o EXCEPT !.do_hex = @ + 1])
      [] ch = "j" -> old_parse_chars(tok, j + 1, [o EXCEPT !.do_json = TRUE])
      [] ch = "N" -> OStep([o EXCEPT !.opt_new = TRUE], j, FALSE, TRUE)
      [] ch = "O" -> old_parse_chars(tok, j + 1, o)
      [] ch = "p" ->
            IF StartsWith(SubSeq(tok, j, Len(tok)), <<"p", "m", "i">>)
            THEN old_parse_chars(tok, j + 3, [o EXCEPT !.do_pmi = TRUE])
            ELSE OStep(o, j, TRUE, FALSE)
      [] ch = "r" -> old_parse_chars(tok, j + 1, [o EXCEPT !.do_raw = TRUE])
      [] ch = "R" -> old_parse_chars(tok, j + 1, [o EXCEPT !.o_readonly = TRUE])
      [] ch = "v" -> old_parse_chars(tok, j + 1,
                        [o EXCEPT !.verbose_given = TRUE, !.verbose = @ + 1])
      [] ch = "V" -> old_parse_chars(tok, j + 1,
                        [o EXCEPT !.version_given = TRUE])
      [] ch = "z" -> old_parse_chars(tok, j + 1, [o EXCEPT !.do_zbc = TRUE])
      [] OTHER -> OStep(o, j, TRUE, FALSE)

\* The loop of old_parse_cmd_line over the arguments, from argument k
RECURSIVE old_parse_cmd_line_from(_, _, _)

\* "lba=": sc is what sscanf("%" SCNx64) gave on the text that follows
old_parse_lba(sc, o, av, k) ==
    IF sc.num # 1 THEN PRes(SG_LIB_SYNTAX_ERROR, o)
    ELSE old_parse_cmd_line_from(
            [o EXCEPT !.do_long = @ \/ AboveFFFFFFFE(sc.v),
                      !.llba = sc.v, !.do_lba = @ + 1], av, k + 1)

\* After the loop over the characters: rest is the text at cp
old_parse_plen(rest, o, jmp_out, av, k) ==
    IF rest = <<>> THEN old_parse_cmd_line_from(o, av, k + 1)
    ELSE IF StartsWith(rest, <<"l", "b", "a", "=">>)
    THEN old_parse_lba(ScanHex64(SubSeq(rest, 5, Len(rest))), o, av, k)
    ELSE IF StartsWith(rest, <<"-", "o", "l", "d">>)
    THEN old_parse_cmd_line_from(o, av, k + 1)
    ELSE IF jmp_out THEN PRes(SG_LIB_SYNTAX_ERROR, o)
    ELSE old_parse_cmd_line_from(o, av, k + 1)

\* s is the outcome of the loop over the characters of argument tok
old_parse_after_chars(s, tok, av, k) ==
    IF s.ret0 THEN PRes(0, s.op)
    ELSE old_parse_plen(SubSeq(tok, s.j, Len(tok)), s.op, s.jmp_out, av, k)

old_parse_arg(tok, o, av, k) ==
    IF Len(tok) <= 0 THEN old_parse_cmd_line_from(o, av, k + 1)
    ELSE IF tok[1] = "-"
    THEN old_parse_after_chars(old_parse_chars(tok, 2, o), tok, av, k)
    ELSE IF o.device_name = NULL
    THEN old_parse_cmd_line_from([o EXCEPT !.device_name = tok], av, k + 1)
    ELSE PRes(SG_LIB_SYNTAX_ERROR, o)

old_parse_cmd_line_from(o, av, k) ==
    IF k > Len(av) THEN PRes(0, o) ELSE old_parse_arg(av[k], o, av, k)

old_parse_cmd_line(o, av) == old_parse_cmd_line_from(o, av, 1)

\* parse_cmd_line(): old_env tells whether SG3_UTILS_OLD_OPTS is set
parse_then_new(r, av) ==
    IF r.res = 0 /\ r.op.opt_new THEN new_parse_cmd_line(r.op, av) ELSE r

parse_then_old(r, av) ==
    IF r.res = 0 /\ ~r.op.opt_new THEN old_parse_cmd_line(r.op, av) ELSE r

parse_cmd_line(o, av, old_env) ==
    IF old_env
    THEN parse_then_new(old_parse_cmd_line([o EXCEPT !.opt_new = FALSE], av), av)
    ELSE parse_then_old(new_parse_cmd_line([o EXCEPT !.opt_new = TRUE], av), av)

\* sg_convert_errno() on an errno value that is not negative
sg_convert_errno(e) == IF e = 0 THEN 0 ELSE SG_LIB_OS_BASE_ERR + e

\* s divided by a small d, on limbs: the quotient and the remainder, rem
\* being the remainder carried in from the limbs before
RECURSIVE QuotSmall(_, _, _)
QuotSmall(s, d, rem) ==
    IF s = <<>> THEN <<>>
    ELSE <<(rem * Limb + Head(s)) \div d>>
         \o QuotSmall(Tail(s), d, (rem * Limb + Head(s)) % d)

RECURSIVE RemSmall(_, _, _)
RemSmall(s, d, rem) ==
    IF s = <<>> THEN rem
    ELSE RemSmall(Tail(s), d, (rem * Limb + Head(s)) % d)

RECURSIVE DecDigitsOf(_)
DecDigitsOf(s) ==
    IF IsZero(s) THEN <<>>
    ELSE Append(DecDigitsOf(QuotSmall(s, 10, 0)),
                HexDigits[RemSmall(s, 10, 0) + 1])

\* printf("%u") of a fixed width number
FormatDec(s) == IF IsZero(s) THEN <<"0">> ELSE DecDigitsOf(s)

\* printf("%d") of a small number that is not negative
FormatInt(n) == FormatDec(U32(n))

\* Replies a device can give to READ CAPACITY (10): 8 bytes
RC_Rcap10Replies ==
    { <<1, 2, 3, 4, 5, 6, 7, 8>>,
      <<0, 0, 0, 0, 0, 0, 2, 0>>,
      <<255, 255, 255, 255, 0, 0, 2, 0>> }

Zeros(n) == [i \in 1..n |-> 0]

\* Replies a device can give to READ CAPACITY (16): 32 bytes
RC_Rcap16Replies ==
    { <<1, 2, 3, 4, 5, 6, 7, 8, 9, 10, 11, 12, 53, 35, 193, 7>> \o Zeros(16),
      <<0, 0, 0, 1, 0, 0, 0, 0, 0, 0, 2, 0, 0, 0, 0, 0>> \o Zeros(16),
      <<255, 255, 255, 255, 255, 255, 255, 255, 0, 0, 16, 0, 14, 240, 127, 255>>
          \o Zeros(16),
      <<0, 0, 0, 0, 0, 0, 0, 9, 128, 0, 0, 0, 0, 1, 0, 0>> \o Zeros(16) }

\* Contents sg_f2hex_arr() can read from the --inhex file
RC_InhexContents ==
    { <<1, 2>>, <<1, 2, 3, 4, 5, 6, 7, 8>> } \cup RC_Rcap16Replies

\* Values sg_ll_readcap_10() and sg_ll_readcap_16() can return
RC_Rcap10Results == {0, SG_LIB_CAT_INVALID_OP, SG_LIB_CAT_NOT_READY, -1}
RC_Rcap16Results == {0, SG_LIB_CAT_ILLEGAL_REQ, SG_LIB_CAT_NOT_READY, -1}

\* Result class of a command submitted through sg_ll_readcap_*()
RC_Class(res) ==
    IF res = 0 THEN "clean" ELSE IF res < 0 THEN "syscall_fail" ELSE "error_cat"

\* The reply buffer with the first Len(bs) bytes overwritten by bs
Overwrite(buf, bs) ==
    [i \in 1..Len(buf) |-> IF i <= Len(bs) THEN bs[i] ELSE buf[i]]

\* sgj_pr_hr(): the line goes to stdout unless the output is JSON
sgj_pr_hr(o, as_json, lines) == IF as_json THEN o ELSE o \o lines

\* sgj_js_nv_*(): the name/value pair is added when the output is JSON
JsNv(sn, name, v) == [obj |-> sn, name |-> name, v |-> v]
sgj_js_nv(j, as_json, pairs) == IF as_json THEN j \o pairs ELSE j

\* hex2stdout() / dStrRaw(): the first n bytes of the buffer on stdout
RC_Dump(o, buf, n) ==
    IF o.do_raw THEN <<OutLine("raw", SubSeq(buf, 1, n), <<>>)>>
    ELSE IF o.do_hex > 2
    THEN (IF o.do_hex > 3 THEN <<Line("pd_name")>> ELSE <<>>)
         \o <<OutLine("hex_plain", SubSeq(buf, 1, n), <<>>)>>
    ELSE <<OutLine("hex", SubSeq(buf, 1, n), <<>>)>>

\* main(): "if (op->inhex_fn) { ... op->device_name = NULL; }"
RC_inhex_given(o) ==
    IF o.inhex_fn # NULL THEN [o EXCEPT !.device_name = NULL] ELSE o

\* A main() in which --zbc does not imply --16
RC_zbc_ignored(o) == o

\* main(): "if (op->do_zbc) { if (! op->do_long) op->do_long = true; }"
RC_zbc_given(o) == IF o.do_zbc THEN [o EXCEPT !.do_long = TRUE] ELSE o

\* A check that takes --pmi for what forbids an LBA
RC_contradiction_with_pmi(o) == o.do_pmi /\ ~IsZero(o.llba)

\* main(): "if ((! op->do_pmi) && (op->llba > 0))"
RC_contradiction(o) == ~o.do_pmi /\ ~IsZero(o.llba)

\* main(): from the start to the contradiction check and the allocation of
\* the reply buffer.  jok, bok, mok: whether sgj_init_state(),
\* sg_set_binary_mode() and sg_memalign() succeed.
RC_Start ==
    /\ prog = "sg_readcap" /\ pc = "parse"
    /\ \E jok, bok, mok \in BOOLEAN,
          r \in {parse_cmd_line(RC_Op0, argv, env_old)} :
       \E o0 \in {r.op} :
       \E o1 \in {RC_inhex_given(o0)} :
       \E o2 \in {RC_zbc_given(o1)} :
        LET Return(o, status) ==
                /\ op' = o /\ pc' = "done" /\ exit_status' = status
                /\ UNCHANGED <<ret, loc>>
        IN
        IF r.res # 0 THEN Return(o0, r.res)
        ELSE IF o0.do_help > 0 THEN Return(o0, 0)
        ELSE IF o0.version_given THEN Return(o0, 0)
        ELSE IF o0.do_json /\ ~jok THEN Return(o0, SG_LIB_SYNTAX_ERROR)
        ELSE IF o0.inhex_fn = NULL /\ o0.device_name = NULL
        THEN Return(o0, SG_LIB_SYNTAX_ERROR)
        ELSE IF o1.do_raw /\ ~bok THEN Return(o1, SG_LIB_FILE_ERROR)
        ELSE IF RC_contradiction(o2)
        THEN /\ op' = o2 /\ ret' = SG_LIB_CONTRADICT /\ pc' = "fini"
             /\ loc' = [loc EXCEPT !.as_json = o2.do_json]
             /\ UNCHANGED exit_status
        ELSE IF ~mok THEN Return(o2, sg_convert_errno(ENOMEM))
        ELSE /\ op' = o2
             /\ loc' = [loc EXCEPT !.as_json = o2.do_json,
                                   !.resp_buff = Zeros(RCAP16_REPLY_LEN),
                                   !.allocated = TRUE]
             /\ pc' = IF o2.inhex_fn # NULL THEN "inhex" ELSE "open"
             /\ UNCHANGED <<ret, exit_status>>
    /\ UNCHANGED <<prog, argv, env_old, sg_fd, calls, out, js>>

\* The position of the first command: READ CAPACITY (10) unless do_long
RC_FirstCmd(o) == IF o.do_long THEN "rcap16" ELSE "rcap10"

\* main(): reading the --inhex file
RC_Inhex ==
    /\ prog = "sg_readcap" /\ pc = "inhex"
    /\ \E r \in {0, SG_LIB_FILE_ERROR}, content \in RC_InhexContents :
        /\ calls' = Append(calls, Call("file", "sg_f2hex_arr", TRUE, -1, 0,
                                       IF r = 0 THEN "ok" ELSE "fail", r))
        /\ IF r # 0
           THEN /\ ret' = r /\ pc' = "fini"
                /\ loc' = [loc EXCEPT !.res = r]
                /\ UNCHANGED op
           ELSE /\ op' = [op EXCEPT !.do_raw = FALSE]
                /\ loc' = [loc EXCEPT !.res = r, !.in_len = Len(content),
                              !.resp_buff = Overwrite(loc.resp_buff, content)]
                /\ IF Len(content) < 4
                   THEN ret' = SG_LIB_SYNTAX_ERROR /\ pc' = "fini"
                   ELSE pc' = RC_FirstCmd(op) /\ UNCHANGED ret
    /\ UNCHANGED <<prog, argv, env_old, sg_fd, out, js, exit_status>>

\* The read-only flag of the first open of the device
RC_rw_0_flag(o) == IF o.do_long THEN o.o_readonly ELSE TRUE

\* The read-only flag of the open that follows a READ CAPACITY (10) the
\* device does not support
RC_reopen_flag(o) == o.o_readonly

\* main(): opening the device
RC_Open ==
    /\ prog = "sg_readcap" /\ pc = "open"
    /\ \E fd \in {FirstFd, -ENOENT, -EACCES} :
        /\ calls' = Append(calls, OpenCall(RC_rw_0_flag(op), fd))
        /\ sg_fd' = fd
        /\ IF fd < 0
           THEN ret' = sg_convert_errno(-fd) /\ pc' = "fini"
           ELSE pc' = RC_FirstCmd(op) /\ UNCHANGED ret
    /\ UNCHANGED <<prog, argv, env_old, op, loc, out, js, exit_status>>

\* A decoding that takes the last block address from bytes 4..7
RC_last_blk_addr_off4(buf) == sg_get_unaligned_be32(buf, 4)

\* The decoding of the READ CAPACITY (10) reply in main()
RC_last_blk_addr(buf) == sg_get_unaligned_be32(buf, 0)
RC_block_size10(buf) == sg_get_unaligned_be32(buf, 4)

rc10_pd_sn == "read_capacity_10_parameter_data"
rc16_pd_sn == "read_capacity_16_parameter_data"
rlba_sn == "returned_logical_block_address"
lblib_sn == "logical_block_length_in_bytes"

\* What main() prints for a READ CAPACITY (10) reply whose last block
\* address is not 0xffffffff
RC_Text10(o, last_blk_addr, block_size) ==
    IF o.do_brief
    THEN <<OutLine("brief", FormatHex(PlusOne(last_blk_addr)),
                   FormatHex(block_size))>>
    ELSE <<Line("Read Capacity results:")>>
         \o (IF o.do_pmi
             THEN <<OutLine("pmi", FormatHex(o.llba), FormatHex(last_blk_addr))>>
             ELSE <<OutLine("last_lba", FormatDec(last_blk_addr),
                            FormatDec(PlusOne(last_blk_addr)))>>)
         \o <<OutLine("block_length", FormatDec(block_size), <<>>)>>
         \o (IF ~o.do_pmi THEN <<Line("Hence:"), Line("device_size")>>
             ELSE <<>>)

\* The message main() prints when READ CAPACITY (10) reports 0xffffffff
RC_TooLarge == <<Line("READ CAPACITY (10) indicates device capacity too large"),
                 Line("now trying 16 byte cdb variant")>>

\* The line --brief prints when no capacity was obtained
RC_BriefNone(o) == IF o.do_brief THEN <<OutLine("brief", <<"0">>, <<"0">>)>>
                   ELSE <<>>

\* main(): if (! op->do_long) { ... }, the READ CAPACITY (10) block
RC_Readcap10 ==
    /\ prog = "sg_readcap" /\ pc = "rcap10"
    /\ \E r \in (IF sg_fd >= 0 THEN RC_Rcap10Results ELSE {0}),
          reply \in (IF sg_fd >= 0 THEN RC_Rcap10Replies ELSE {<<>>}),
          cres \in {0, -EBADF}, fd2 \in {FirstFd, -EACCES} :
        LET buf == IF r = 0 THEN Overwrite(loc.resp_buff, reply)
                   ELSE loc.resp_buff
            sent == IF sg_fd >= 0
                    THEN <<CmdCall("READ CAPACITY (10)", sg_fd, 0, RC_Class(r), r)>>
                    ELSE <<>>
            last_blk_addr == RC_last_blk_addr(buf)
            block_size == RC_block_size10(buf)
            pairs == <<JsNv(rc10_pd_sn, rlba_sn, last_blk_addr),
                       JsNv(rc10_pd_sn, lblib_sn, block_size)>>
        IN
        /\ loc' = [loc EXCEPT !.res = r, !.resp_buff = buf]
        /\ IF r = 0 THEN
                /\ ret' = r /\ UNCHANGED sg_fd
                /\ calls' = calls \o sent
                /\ IF op.do_hex > 0 \/ op.do_raw
                   THEN /\ out' = out \o RC_Dump(op, buf, RCAP_REPLY_LEN)
                        /\ pc' = "fini" /\ UNCHANGED <<op, js>>
                   ELSE /\ js' = sgj_js_nv(js, loc.as_json, pairs)
                        /\ IF last_blk_addr # U32_MAX
                           THEN /\ out' = sgj_pr_hr(out, loc.as_json,
                                        RC_Text10(op, last_blk_addr, block_size))
                                /\ pc' = "fini" /\ UNCHANGED op
                           ELSE /\ out' = sgj_pr_hr(out, loc.as_json, RC_TooLarge)
                                /\ op' = [op EXCEPT !.do_long = TRUE]
                                /\ pc' = "rcap16"
           ELSE IF r = SG_LIB_CAT_INVALID_OP /\ sg_fd >= 0 THEN
                /\ op' = [op EXCEPT !.do_long = TRUE]
                /\ calls' = calls \o sent
                            \o <<CloseCall(sg_fd, cres),
                                 OpenCall(RC_reopen_flag(op), fd2)>>
                /\ sg_fd' = fd2
                /\ IF fd2 < 0
                   THEN ret' = sg_convert_errno(-fd2) /\ pc' = "fini"
                   ELSE ret' = r /\ pc' = "rcap16"
                /\ UNCHANGED <<out, js>>
           ELSE /\ ret' = r
                /\ calls' = calls \o sent
                /\ out' = sgj_pr_hr(out, loc.as_json, RC_BriefNone(op))
                /\ pc' = "fini"
                /\ UNCHANGED <<op, sg_fd, js>>
    /\ UNCHANGED <<prog, argv, env_old, exit_status>>

\* The decoding of the READ CAPACITY (16) reply in main()
RC_llast_blk_addr(buf) == sg_get_unaligned_be64(buf, 0)
RC_block_size16(buf) == sg_get_unaligned_be32(buf, 8)
RC_rc_basis(buf) == (buf[13] \div 16) % 4
RC_prot_en(buf) == IF buf[13] % 2 # 0 THEN 1 ELSE 0
RC_p_type(buf) == (buf[13] \div 2) % 8
RC_p_i_exponent(buf) == (buf[14] \div 16) % 16
RC_lbppbe(buf) == buf[14] % 16
RC_lbpme(buf) == IF (buf[15] \div 128) % 2 # 0 THEN 1 ELSE 0
RC_lbprz(buf) == IF (buf[15] \div 64) % 2 # 0 THEN 1 ELSE 0
RC_lalba(buf) == (buf[15] % 64) * 256 + buf[16]

RECURSIVE Pow2(_)
Pow2(n) == IF n = 0 THEN 1 ELSE 2 * Pow2(n - 1)

\* block_size * (1 << lbppbe), in 32 bit unsigned arithmetic
RC_phys_block_len(buf) ==
    MulAdd(RC_block_size16(buf), Pow2(RC_lbppbe(buf)), 0)

\* The name/value pairs main() emits for a READ CAPACITY (16) reply
RC_Pairs16(o, buf) ==
    <<JsNv(rc16_pd_sn, rlba_sn, RC_llast_blk_addr(buf)),
      JsNv(rc16_pd_sn, lblib_sn, RC_block_size16(buf))>>
    \o (IF o.do_brief THEN <<>>
        ELSE <<JsNv(rc16_pd_sn, "rc_basis", U32(RC_rc_basis(buf))),
               JsNv(rc16_pd_sn, "p_type", U32(RC_p_type(buf))),
               JsNv(rc16_pd_sn, "prot_en", U32(RC_prot_en(buf))),
               JsNv(rc16_pd_sn, "p_i_exponent", U32(RC_p_i_exponent(buf))),
               JsNv(rc16_pd_sn, "logical_blocks_per_physical_block_exponent",
                    U32(RC_lbppbe(buf))),
               JsNv(rc16_pd_sn, "lbpme", U32(RC_lbpme(buf))),
               JsNv(rc16_pd_sn, "lbprz", U32(RC_lbprz(buf))),
               JsNv(rc16_pd_sn, "lowest_aligned_logical_block_address",
                    U32(RC_lalba(buf)))>>)

\* What main() prints for a READ CAPACITY (16) reply
RC_Text16(o, buf) ==
    IF o.do_brief
    THEN <<OutLine("brief", FormatHex(PlusOne(RC_llast_blk_addr(buf))),
                   FormatHex(RC_block_size16(buf)))>>
    ELSE <<Line("Read Capacity results:")>>
         \o <<OutVals("protection",
                      <<FormatInt(RC_prot_en(buf)), FormatInt(RC_p_type(buf)),
                        FormatInt(RC_p_i_exponent(buf))>>
                      \o (IF RC_prot_en(buf) # 0
                          THEN <<FormatInt(RC_p_type(buf) + 1)>> ELSE <<>>))>>
         \o (IF o.do_zbc
             THEN <<OutLine("rc_basis", FormatInt(RC_rc_basis(buf)), <<>>)>>
             ELSE <<>>)
         \o <<OutLine("provisioning", FormatInt(RC_lbpme(buf)),
                      FormatInt(RC_lbprz(buf)))>>
         \o (IF o.do_pmi
             THEN <<OutLine("pmi", FormatHex(o.llba),
                            FormatHex(RC_llast_blk_addr(buf)))>>
             ELSE <<OutLine("last_lba", FormatDec(RC_llast_blk_addr(buf)),
                            FormatDec(PlusOne(RC_llast_blk_addr(buf))))>>)
         \o <<OutLine("block_length", FormatDec(RC_block_size16(buf)), <<>>)>>
         \o <<OutVals("lbppbe",
                      <<FormatInt(RC_lbppbe(buf))>>
                      \o (IF RC_lbppbe(buf) > 0
                          THEN <<FormatDec(RC_phys_block_len(buf))>>
                          ELSE <<>>))>>
         \o <<OutLine("lowest_aligned_lba", FormatInt(RC_lalba(buf)), <<>>)>>
         \o (IF ~o.do_pmi THEN <<Line("Hence:"), Line("device_size")>>
             ELSE <<>>)

\* main(): if (op->do_long) { ... }, the READ CAPACITY (16) block
RC_Readcap16 ==
    /\ prog = "sg_readcap" /\ pc = "rcap16"
    /\ \E r \in (IF sg_fd >= 0 THEN RC_Rcap16Results ELSE {0}),
          reply \in (IF sg_fd >= 0 THEN RC_Rcap16Replies ELSE {<<>>}) :
        LET buf == IF r = 0 THEN Overwrite(loc.resp_buff, reply)
                   ELSE loc.resp_buff
            sent == IF sg_fd >= 0
                    THEN <<CmdCall("READ CAPACITY (16)", sg_fd, 0, RC_Class(r), r)>>
                    ELSE <<>>
        IN
        /\ loc' = [loc EXCEPT !.res = r, !.resp_buff = buf]
        /\ ret' = r
        /\ calls' = calls \o sent
        /\ pc' = "fini"
        /\ IF r = 0 THEN
                IF op.do_hex > 0 \/ op.do_raw
                THEN /\ out' = out \o RC_Dump(op, buf, RCAP16_REPLY_LEN)
                     /\ UNCHANGED js
                ELSE /\ js' = sgj_js_nv(js, loc.as_json, RC_Pairs16(op, buf))
                     /\ out' = sgj_pr_hr(out, loc.as_json, RC_Text16(op, buf))
           ELSE /\ out' = sgj_pr_hr(out, loc.as_json, RC_BriefNone(op))
                /\ UNCHANGED js
    /\ UNCHANGED <<prog, argv, env_old, op, sg_fd, exit_status>>

\* Whether the JSON output goes to stdout: no --js-file, or --js-file=-
RC_JsonToStdout(o) == o.js_file = NULL \/ o.js_file = <<"-">>

\* A fini that closes the device only when nothing failed before
RC_fini_closes_if_ok(fd) == fd >= 0 /\ ret = 0

\* main(): "if (sg_fd >= 0) { res = sg_cmds_close_device(sg_fd); ..."
RC_fini_closes(fd) == fd >= 0

\* main(): from the label fini to the return.  cres: the result of closing
\* the device; fok: whether fopen() of the --js-file works.
RC_Fini ==
    /\ prog = "sg_readcap" /\ pc = "fini"
    /\ \E cres \in {0, -EBADF}, fok \in BOOLEAN :
        LET closing == RC_fini_closes(sg_fd)
            res1 == IF closing THEN cres ELSE loc.res
            ret1 == IF closing /\ cres < 0 /\ ret = 0
                    THEN sg_convert_errno(-cres) ELSE ret
            ret2 == IF ret1 >= 0 THEN ret1 ELSE SG_LIB_CAT_OTHER
            fp_ok == RC_JsonToStdout(op) \/ fok
            res2 == IF op.do_json /\ ~fp_ok THEN SG_LIB_FILE_ERROR ELSE res1
            ret3 == IF op.do_json /\ ret2 = 0 /\ res2 > 0 THEN res2 ELSE ret2
        IN
        /\ calls' = IF closing THEN Append(calls, CloseCall(sg_fd, cres))
                    ELSE calls
        /\ loc' = [loc EXCEPT !.res = res2, !.allocated = FALSE]
        /\ out' = IF op.do_json /\ RC_JsonToStdout(op)
                  THEN Append(out, Line("json")) ELSE out
        /\ ret' = ret3
        /\ exit_status' = ret3
        /\ pc' = "done"
    /\ UNCHANGED <<prog, argv, env_old, op, sg_fd, js>>

\* ----------------------------------------------------------- sg_requests

MAX_REQS_RESP_LEN == 255
DEF_REQS_RESP_LEN == 252
DEF_PT_TIMEOUT == 60
REQUEST_SENSE_CMD == 3
SG_LIB_CAT_SENSE == 98

\* The short option string "dehHm:n:prstT:vV" of getopt_long
RQ_ShortOpts ==
    [none |-> {"d", "e", "h", "H", "p", "r", "s", "t", "v", "V"},
     req |-> {"m", "n", "T"},
     opt |-> {}]

RQ_long_options ==
    { LongOpt(<<"d", "e", "s", "c">>, "no", "d"),
      LongOpt(<<"e", "r", "r", "o", "r">>, "no", "e"),
      LongOpt(<<"h", "e", "l", "p">>, "no", "h"),
      LongOpt(<<"h", "e", "x">>, "no", "H"),
      LongOpt(<<"m", "a", "x", "l", "e", "n">>, "required", "m"),
      LongOpt(<<"n", "u", "m">>, "required", "n"),
      LongOpt(<<"n", "u", "m", "b", "e", "r">>, "required", "n"),
      LongOpt(<<"p", "r", "o", "g", "r", "e", "s", "s">>, "no", "p"),
      LongOpt(<<"r", "a", "w">>, "no", "r"),
      LongOpt(<<"s", "t", "a", "t", "u", "s">>, "no", "s"),
      LongOpt(<<"t", "i", "m", "e">>, "no", "t"),
      LongOpt(<<"t", "i", "m", "e", "o", "u", "t">>, "required", "T"),
      LongOpt(<<"t", "m", "o">>, "required", "T"),
      LongOpt(<<"v", "e", "r", "b", "o", "s", "e">>, "no", "v"),
      LongOpt(<<"v", "e", "r", "s", "i", "o", "n">>, "no", "V") }

\* main's option locals as initialised
RQ_Op0 ==
    [desc |-> FALSE, do_error |-> 0, do_hex |-> 0, maxlen |-> 0, num_rs |-> 1,
     do_progress |-> FALSE, do_raw |-> FALSE, do_status |-> FALSE,
     do_time |-> FALSE, tmo |-> 0, verbose |-> 0, verbose_given |-> FALSE,
     version_given |-> FALSE, device_name |-> NULL]

\* One pass of the switch of the option loop of main on (c, optarg):
\* [res, op, stop], stop telling that main returns res here
RStep(res, o, stop) == [res |-> res, op |-> o, stop |-> stop]

RQ_switch(c, optarg, o) ==
    CASE c = "d" -> RStep(0, [o EXCEPT !.desc = TRUE], FALSE)
      [] c = "e" -> RStep(0, [o EXCEPT !.do_error = @ + 1], FALSE)
      [] c \in {"h", "?"} -> RStep(0, o, TRUE)
      [] c = "H" -> RStep(0, [o EXCEPT !.do_hex = @ + 1], FALSE)
      [] c = "m" ->
            LET v == sg_get_num(optarg) IN
            IF v < 0 \/ v > MAX_REQS_RESP_LEN
            THEN RStep(SG_LIB_SYNTAX_ERROR, [o EXCEPT !.maxlen = v], TRUE)
            ELSE RStep(0, [o EXCEPT !.maxlen = v], FALSE)
      [] c = "n" ->
            LET v == sg_get_num(optarg) IN
            IF v < 1
            THEN RStep(SG_LIB_SYNTAX_ERROR, [o EXCEPT !.num_rs = v], TRUE)
            ELSE RStep(0, [o EXCEPT !.num_rs = v], FALSE)
      [] c = "p" -> RStep(0, [o EXCEPT !.do_progress = TRUE], FALSE)
      [] c = "r" -> RStep(0, [o EXCEPT !.do_raw = TRUE], FALSE)
      [] c = "s" -> RStep(0, [o EXCEPT !.do_status = TRUE], FALSE)
      [] c = "t" -> RStep(0, [o EXCEPT !.do_time = TRUE], FALSE)
      [] c = "T" ->
            LET v == sg_get_num(optarg) IN
            IF v < 0
            THEN RStep(SG_LIB_SYNTAX_ERROR, [o EXCEPT !.tmo = v], TRUE)
            ELSE RStep(0, [o EXCEPT !.tmo = v], FALSE)
      [] c = "v" -> RStep(0, [o EXCEPT !.verbose_given = TRUE,
                                      !.verbose = @ + 1], FALSE)
      [] c = "V" -> RStep(0, [o EXCEPT !.version_given = TRUE], FALSE)
      [] OTHER -> RStep(SG_LIB_SYNTAX_ERROR, o, TRUE)

RECURSIVE RQ_option_loop(_, _)
RQ_option_loop(opts, o) ==
    IF opts = <<>> THEN RStep(0, o, FALSE)
    ELSE LET s == RQ_switch(Head(opts).c, Head(opts).optarg, o) IN
         IF s.stop THEN s ELSE RQ_option_loop(Tail(opts), s.op)

\* The option loop of main and the handling of the arguments left over
RQ_parse(av) ==
    LET g == Getopt(av, RQ_ShortOpts, RQ_long_options)
        s == RQ_option_loop(g.opts, RQ_Op0)
    IN
    IF s.stop THEN s
    ELSE IF g.words = <<>> THEN s
    ELSE IF Len(g.words) > 1
    THEN RStep(SG_LIB_SYNTAX_ERROR,
               [s.op EXCEPT !.device_name = g.words[1]], TRUE)
    ELSE RStep(0, [s.op EXCEPT !.device_name = g.words[1]], FALSE)

\* A check that forgets --hex
RQ_contradiction_raw_only(o) == o.do_raw /\ (o.do_progress \/ o.do_time)

\* --raw or --hex together with --progress or --time
RQ_contradiction(o) ==
    (o.do_raw \/ o.do_hex > 0) /\ (o.do_progress \/ o.do_time)

\* An allocation length left as the option loop set it
RQ_maxlen_as_given(maxlen) == maxlen

\* main(): "if (0 == maxlen) maxlen = DEF_REQS_RESP_LEN;"
RQ_maxlen_default(maxlen) == IF maxlen = 0 THEN DEF_REQS_RESP_LEN ELSE maxlen

\* main(): from the start to the contradiction check.  bok: whether
\* sg_set_binary_mode() succeeds.
RQ_Start ==
    /\ prog = "sg_requests" /\ pc = "parse"
    /\ \E bok \in BOOLEAN :
        LET s == RQ_parse(argv)
            o0 == s.op
            o1 == [o0 EXCEPT
                     !.maxlen = RQ_maxlen_default(@),
                     !.tmo = IF @ = 0 THEN DEF_PT_TIMEOUT ELSE @]
            Return(o, status) ==
                /\ op' = o /\ pc' = "done" /\ exit_status' = status
                /\ UNCHANGED <<ret, loc>>
        IN
        IF s.stop THEN Return(o0, s.res)
        ELSE IF o0.version_given THEN Return(o0, 0)
        ELSE IF o0.device_name = NULL
        THEN Return([o0 EXCEPT !.maxlen = o1.maxlen], SG_LIB_SYNTAX_ERROR)
        ELSE IF o1.do_raw /\ ~bok THEN Return(o1, SG_LIB_FILE_ERROR)
        ELSE /\ op' = o1
             /\ loc' = [loc EXCEPT !.not_raw_hex = ~(o1.do_raw \/ o1.do_hex > 0)]
             /\ IF RQ_contradiction(o1)
                THEN ret' = SG_LIB_CONTRADICT /\ pc' = "finish"
                ELSE pc' = "open" /\ UNCHANGED ret
             /\ UNCHANGED exit_status
    /\ UNCHANGED <<prog, argv, env_old, sg_fd, calls, out, js>>

\* An open whose result is not looked at
RQ_after_open_unchecked(fd) == "construct"

\* main(): "if (sg_fd < 0) { ... goto finish; }"
RQ_after_open(fd) == IF fd < 0 THEN "finish" ELSE "construct"

\* main(): sg_cmds_open_device(device_name, true /* ro */, verbose)
RQ_Open ==
    /\ prog = "sg_requests" /\ pc = "open"
    /\ \E fd \in {FirstFd, -ENOENT} :
        /\ calls' = Append(calls, OpenCall(TRUE, fd))
        /\ sg_fd' = fd
        /\ pc' = RQ_after_open(fd)
        /\ IF fd < 0 THEN ret' = sg_convert_errno(-fd) ELSE UNCHANGED ret
    /\ UNCHANGED <<prog, argv, env_old, op, loc, out, js, exit_status>>

\* The REQUEST SENSE cdb main() builds
RQ_cdb(o) ==
    <<IF o.do_error > 0 THEN 255 ELSE REQUEST_SENSE_CMD,
      IF o.desc THEN 1 ELSE 0, 0, 0, o.maxlen, 0>>

\* main(): construct_scsi_pt_obj_with_fd() and the building of the cdb.
\* err: 0 when the object is usable, -1 for a null pointer, else its OS error.
RQ_Construct ==
    /\ prog = "sg_requests" /\ pc = "construct"
    /\ \E err \in {0, -1, EACCES} :
        IF err # 0
        THEN /\ ret' = sg_convert_errno(IF err > 0 THEN err ELSE ENOMEM)
             /\ loc' = [loc EXCEPT !.err = IF err > 0 THEN err ELSE 0]
             /\ pc' = "finish"
        ELSE /\ loc' = [loc EXCEPT !.rs_cdb = RQ_cdb(op), !.ptvp = TRUE]
             /\ pc' = IF op.do_progress THEN "progress" ELSE "loop"
             /\ UNCHANGED ret
    /\ UNCHANGED <<prog, argv, env_old, op, sg_fd, calls, out, js, exit_status>>

EIO == 5

\* The parameter data (data-in) of REQUEST SENSE, reduced to what main()
\* reads from it through sg_scsi_normalize_sense(): whether the response
\* code is one of sense data, the sense key, asc and ascq.
ParamData(valid, sk, asc, ascq) ==
    [valid |-> valid, sense_key |-> sk, asc |-> asc, ascq |-> ascq]

\* rsBuff after memset(rsBuff, 0x0, sizeof(rsBuff))
RQ_ZeroData == ParamData(FALSE, 0, 0, 0)

\* Parameter data a device can return
RQ_ParamDataSet ==
    { ParamData(TRUE, 0, 0, 0), ParamData(TRUE, 0, 93, 0),
      ParamData(TRUE, 2, 4, 1), ParamData(TRUE, 6, 41, 0) }

\* Length of the parameter data a device returns when it returns some
RQ_DataLen == 18

\* Sense categories sg_cmds_process_resp() can report with -2
RQ_SenseCats ==
    { SG_LIB_CAT_RECOVERED, SG_LIB_CAT_NO_SENSE, SG_LIB_CAT_NOT_READY,
      SG_LIB_CAT_UNIT_ATTENTION, SG_LIB_CAT_ILLEGAL_REQ }

\* sg_scsi_normalize_sense(rsBuff, len, &ssh)
sg_scsi_normalize_sense(pd, len) == len > 0 /\ pd.valid

\* sg_err_category_sense(rsBuff, len)
sg_err_category_sense(pd, len) ==
    IF len > 2 /\ sg_scsi_normalize_sense(pd, len)
    THEN CASE pd.sense_key = 0 -> SG_LIB_CAT_NO_SENSE
           [] pd.sense_key = 1 -> SG_LIB_CAT_RECOVERED
           [] pd.sense_key = 2 -> SG_LIB_CAT_NOT_READY
           [] pd.sense_key \in {3, 4, 8} -> SG_LIB_CAT_MEDIUM_HARD
           [] pd.sense_key = 5 ->
                IF pd.asc = 32 /\ pd.ascq = 0 THEN SG_LIB_CAT_INVALID_OP
                ELSE SG_LIB_CAT_ILLEGAL_REQ
           [] pd.sense_key = 6 -> SG_LIB_CAT_UNIT_ATTENTION
           [] OTHER -> SG_LIB_CAT_SENSE
    ELSE SG_LIB_CAT_SENSE

\* Result class of a submitted REQUEST SENSE, from what
\* sg_cmds_process_resp() returned
RQ_Class(n, sense_cat) ==
    IF n = -1 THEN "syscall_fail"
    ELSE IF n = -2
    THEN (IF sense_cat = SG_LIB_CAT_RECOVERED THEN "recovered"
          ELSE IF sense_cat = SG_LIB_CAT_NO_SENSE THEN "no_sense"
          ELSE "error_cat")
    ELSE "clean"

\* One outcome of do_scsi_pt() + sg_cmds_process_resp(): n, the sense
\* category (n = -2), the data returned (n > 0), and for n = -1 whether
\* the transport failed and else the OS error
Outcome(n, cat, pd, terr, oserr) ==
    [n |-> n, sense_cat |-> cat, pd |-> pd, terr |-> terr, oserr |-> oserr]

RQ_Outcomes ==
    { Outcome(-1, 0, RQ_ZeroData, t, EIO) : t \in BOOLEAN }
    \cup { Outcome(-2, c, RQ_ZeroData, FALSE, 0) : c \in RQ_SenseCats }
    \cup { Outcome(0, 0, RQ_ZeroData, FALSE, 0) }
    \cup { Outcome(RQ_DataLen, 0, pd, FALSE, 0) : pd \in RQ_ParamDataSet }

\* With --error given twice the call is skipped: n = 0
RQ_Skipped == Outcome(0, 0, RQ_ZeroData, FALSE, 0)

\* A switch that counts every category and lets none end the run
RQ_sense_switch_counting(o, sense_cat, ret0, num_errs, lines) ==
    [ret |-> ret0, num_errs |-> num_errs + 1, out |-> lines]

\* The switch on sense_cat after n = -2, the same in both loops:
\* [ret, num_errs, out] from the values before
RQ_sense_switch(o, sense_cat, ret0, num_errs, lines) ==
    CASE sense_cat \in {SG_LIB_CAT_RECOVERED, SG_LIB_CAT_NO_SENSE} ->
            [ret |-> ret0, num_errs |-> num_errs, out |-> lines]
      [] sense_cat = SG_LIB_CAT_NOT_READY ->
            IF o.num_rs = 1
            THEN [ret |-> sense_cat, num_errs |-> num_errs + 1,
                  out |-> Append(lines, Line("device not ready"))]
            ELSE [ret |-> ret0, num_errs |-> num_errs + 1, out |-> lines]
      [] sense_cat = SG_LIB_CAT_UNIT_ATTENTION ->
            [ret |-> ret0, num_errs |-> num_errs + 1, out |-> lines]
      [] OTHER ->
            IF o.num_rs = 1
            THEN [ret |-> sense_cat, num_errs |-> num_errs + 1,
                  out |-> Append(lines, OutLine("category",
                                                FormatInt(sense_cat), <<>>))]
            ELSE [ret |-> ret0, num_errs |-> num_errs + 1, out |-> lines]

\* The exit status after the loop when --status is given
RQ_status_ret(pd, act_din_len) ==
    LET c == sg_err_category_sense(pd, act_din_len) IN
    IF c = SG_LIB_CAT_NO_SENSE /\ sg_scsi_normalize_sense(pd, act_din_len)
       /\ pd.asc = 0 /\ pd.ascq = 0
    THEN 0 ELSE c

\* An exit status taken from the parameter data whether or not --status is
\* given
RQ_after_loop_always_status(o, l, ret0, pd, act_din_len, lines) ==
    [ret |-> IF ret0 = 0 THEN RQ_status_ret(pd, act_din_len) ELSE ret0,
     out |-> IF l.not_raw_hex /\ o.do_time THEN Append(lines, Line("time"))
             ELSE lines]

\* The code after the for loop of main(): [ret, out]
RQ_after_loop(o, l, ret0, pd, act_din_len, lines) ==
    [ret |-> IF ret0 = 0 /\ o.do_status THEN RQ_status_ret(pd, act_din_len)
             ELSE ret0,
     out |-> IF l.not_raw_hex /\ o.do_time THEN Append(lines, Line("time"))
             ELSE lines]

\* A loop that makes the submitting call whatever --error says
RQ_submits_always(o) == TRUE

\* Whether the submitting call is made: not with --error given twice
RQ_submits(o) == ~(o.do_error > 1)

\* A packet id that starts at 0
RQ_pack_id_from_0(k) == k

\* The packet id of iteration k
RQ_pack_id(k) == k + 1

\* main(): one iteration of for (k = 0; k < num_rs; ++k) without --progress,
\* and the code after the loop when it was the last one
RQ_Iter ==
    /\ prog = "sg_requests" /\ pc = "loop" /\ loc.k < op.num_rs
    /\ \E oc \in (IF RQ_submits(op) THEN RQ_Outcomes ELSE {RQ_Skipped}) :
        LET sent == IF RQ_submits(op)
                    THEN <<[CmdCall("REQUEST SENSE", sg_fd, RQ_pack_id(loc.k),
                                    RQ_Class(oc.n, oc.sense_cat), oc.n)
                            EXCEPT !.cdb = loc.rs_cdb]>>
                    ELSE <<>>
            errs0 == IF RQ_submits(op) THEN loc.num_errs ELSE loc.num_errs + 1
            sw == IF oc.n = -2
                  THEN RQ_sense_switch(op, oc.sense_cat, 0, errs0, out)
                  ELSE [ret |-> 0, num_errs |-> errs0, out |-> out]
            act_din_len == IF oc.n >= 0 THEN oc.n ELSE 0
            din_err == act_din_len > 7
                       /\ sg_scsi_normalize_sense(oc.pd, act_din_len)
                       /\ oc.pd.sense_key > 0
            dump == IF act_din_len > 0 /\ op.do_raw
                    THEN <<OutLine("raw", <<act_din_len>>, <<>>)>>
                    ELSE IF act_din_len > 0 /\ op.do_hex > 0
                    THEN <<OutLine("hex", <<act_din_len>>, <<>>)>>
                    ELSE <<>>
            l1 == [loc EXCEPT !.n = oc.n, !.sense_cat = oc.sense_cat,
                              !.rsBuff = oc.pd, !.act_din_len = act_din_len,
                              !.num_errs = sw.num_errs,
                              !.num_din_errs = IF din_err THEN @ + 1 ELSE @,
                              !.most_recent_skey =
                                  IF din_err THEN oc.pd.sense_key ELSE @]
            last == loc.k + 1 >= op.num_rs
            after == RQ_after_loop(op, l1, sw.ret, oc.pd, act_din_len,
                                   sw.out \o dump)
        IN
        /\ calls' = calls \o sent
        /\ IF oc.n = -1
           THEN /\ ret' = IF oc.terr THEN SG_LIB_TRANSPORT_ERROR
                          ELSE sg_convert_errno(oc.oserr)
                /\ loc' = [loc EXCEPT !.n = oc.n, !.rsBuff = oc.pd,
                                      !.act_din_len = 0]
                /\ pc' = "finish" /\ UNCHANGED out
           ELSE IF sw.ret # 0
           THEN /\ ret' = sw.ret /\ loc' = l1 /\ out' = sw.out
                /\ pc' = "finish"
           ELSE IF last
           THEN /\ ret' = after.ret /\ out' = after.out
                /\ loc' = [l1 EXCEPT !.k = @ + 1]
                /\ pc' = "finish"
           ELSE /\ ret' = sw.ret /\ out' = sw.out \o dump
                /\ loc' = [l1 EXCEPT !.k = @ + 1]
                /\ pc' = "loop"
    /\ UNCHANGED <<prog, argv, env_old, op, sg_fd, js, exit_status>>

\* Progress indications sg_get_sense_progress_fld() can find in the data
RQ_Progress == {-1, 32768}

\* main(): one iteration of the loop taken with --progress
RQ_ProgressIter ==
    /\ prog = "sg_requests" /\ pc = "progress" /\ loc.k < op.num_rs
    /\ \E oc \in (IF RQ_submits(op) THEN RQ_Outcomes ELSE {RQ_Skipped}),
          progress \in RQ_Progress :
        LET sent == IF RQ_submits(op)
                    THEN <<[CmdCall("REQUEST SENSE", sg_fd, RQ_pack_id(loc.k),
                                    RQ_Class(oc.n, oc.sense_cat), oc.n)
                            EXCEPT !.cdb = loc.rs_cdb]>>
                    ELSE <<>>
            errs0 == IF RQ_submits(op) THEN loc.num_errs ELSE loc.num_errs + 1
            sw == IF oc.n = -2
                  THEN RQ_sense_switch(op, oc.sense_cat, ret, errs0, out)
                  ELSE [ret |-> ret, num_errs |-> errs0, out |-> out]
            act_din_len == IF oc.n >= 0 THEN oc.n ELSE 0
            l1 == [loc EXCEPT !.n = oc.n, !.sense_cat = oc.sense_cat,
                              !.rsBuff = oc.pd, !.act_din_len = act_din_len,
                              !.num_errs = sw.num_errs]
        IN
        /\ (act_din_len = 0 => progress = -1)
        /\ calls' = calls \o sent
        /\ IF oc.n = -1
           THEN /\ ret' = IF oc.terr THEN SG_LIB_TRANSPORT_ERROR
                          ELSE sg_convert_errno(oc.oserr)
                /\ loc' = [loc EXCEPT !.n = oc.n, !.rsBuff = oc.pd,
                                      !.act_din_len = 0]
                /\ pc' = "finish" /\ UNCHANGED out
           ELSE IF sw.ret # 0
           THEN /\ ret' = sw.ret /\ loc' = l1 /\ out' = sw.out
                /\ pc' = "finish"
           ELSE IF progress < 0
           THEN /\ ret' = loc.res /\ loc' = l1 /\ out' = sw.out
                /\ pc' = "finish"
           ELSE /\ ret' = sw.ret
                /\ out' = Append(sw.out,
                                 OutLine("progress",
                                         FormatInt((progress * 100) \div 65536),
                                         FormatInt(((progress * 100) % 65536)
                                                   \div 656)))
                /\ loc' = [l1 EXCEPT !.k = @ + 1]
                /\ pc' = IF loc.k + 1 >= op.num_rs THEN "finish" ELSE "progress"
    /\ UNCHANGED <<prog, argv, env_old, op, sg_fd, js, exit_status>>

\* What main() prints at the label finish
RQ_finish_lines(l) ==
    IF ~l.not_raw_hex THEN <<>>
    ELSE (IF l.num_errs > 0
          THEN <<OutLine("command_errors", FormatInt(l.num_errs), <<>>)>>
          ELSE <<>>)
         \o (IF l.num_din_errs > 0
             THEN <<OutLine("data_in_errors", FormatInt(l.num_din_errs),
                            FormatInt(l.most_recent_skey))>>
             ELSE <<>>)

\* main(): from the label finish to the return
RQ_Finish ==
    /\ prog = "sg_requests" /\ pc = "finish"
    /\ \E cres \in (IF sg_fd >= 0 THEN {0, -EBADF} ELSE {0}) :
        LET closing == sg_fd >= 0
            ret1 == IF closing /\ cres < 0 /\ ret = 0
                    THEN sg_convert_errno(-cres) ELSE ret
            ret2 == IF ret1 >= 0 THEN ret1 ELSE SG_LIB_CAT_OTHER
        IN
        /\ out' = out \o RQ_finish_lines(loc)
        /\ calls' = IF closing THEN Append(calls, CloseCall(sg_fd, cres))
                    ELSE calls
        /\ loc' = IF closing THEN [loc EXCEPT !.res = cres] ELSE loc
        /\ ret' = ret2
        /\ exit_status' = ret2
        /\ pc' = "done"
    /\ UNCHANGED <<prog, argv, env_old, op, sg_fd, js>>

\* Option arguments the model draws command lines from
S1_OptTokens == { <<"-", "x">>, <<"-", "q">> }

RC_OptTokens ==
    { <<"-", "z">>, <<"-", "-", "1", "0">>, <<"-", "1", "6">>,
      <<"-", "b">>, <<"-", "p">>, <<"-", "R">>, <<"-", "H">>, <<"-", "r">>,
      <<"-", "h">>, <<"-", "j">>, <<"-", "O">>,
      <<"-", "L", "5">>, <<"-", "i", "f">>,
      <<"-", "l", "b", "a", "=", "5">>, <<"-", "p", "m", "i">> }

RQ_OptTokens ==
    { <<"-", "e">>, <<"-", "e", "e">>, <<"-", "h">>, <<"-", "H">>, <<"-", "r">>, <<"-", "p">>,
      <<"-", "s">>, <<"-", "t">>, <<"-", "V">>, <<"-", "d">>,
      <<"-", "m", "5">>, <<"-", "m", "2", "5", "6">>, <<"-", "m", "0">>,
      <<"-", "m", "-", "1">>,
      <<"-", "n", "0">>, <<"-", "n", "2">> }

\* The arguments that are not options: none, a device, a device and more
DeviceWords == { <<>>, << <<"/", "d">> >>, << <<"/", "d">>, <<"/", "x">> >> }

\* ------------------------------------------------------------ the system

\* All sequences of at most n elements of T
SeqsUpTo(T, n) == UNION { [1..m -> T] : m \in 0..n }

Programs == {"sg_simple1", "sg_readcap", "sg_requests"}

\* The command lines, the options and the locals a utility starts with
OptTokens(p) ==
    CASE p = "sg_simple1" -> S1_OptTokens
      [] p = "sg_readcap" -> RC_OptTokens
      [] p = "sg_requests" -> RQ_OptTokens

CommandLines(p) ==
    { o \o w : o \in SeqsUpTo(OptTokens(p), MaxOpts), w \in DeviceWords }

Op0(p) ==
    CASE p = "sg_simple1" -> [file_name |-> <<>>, do_extra |-> 0]
      [] p = "sg_readcap" -> RC_Op0
      [] p = "sg_requests" -> RQ_Op0

Loc0(p) ==
    CASE p = "sg_simple1" -> [ok |-> 0]
      [] p = "sg_readcap" ->
            [res |-> 0, as_json |-> FALSE, resp_buff |-> <<>>, in_len |-> 0,
             allocated |-> FALSE]
      [] p = "sg_requests" ->
            [k |-> 0, n |-> 0, sense_cat |-> 0, act_din_len |-> 0, err |-> 0,
             num_errs |-> 0, num_din_errs |-> 0, most_recent_skey |-> 0,
             res |-> 0, rsBuff |-> RQ_ZeroData, not_raw_hex |-> FALSE,
             rs_cdb |-> <<REQUEST_SENSE_CMD, 0, 0, 0, 0, 0>>, ptvp |-> FALSE]

InitOf(P) ==
    /\ prog \in P
    /\ argv \in CommandLines(prog)
    /\ env_old \in (IF prog = "sg_readcap" THEN BOOLEAN ELSE {FALSE})
    /\ pc = "parse"
    /\ op = Op0(prog)
    /\ loc = Loc0(prog)
    /\ sg_fd = -1
    /\ ret = 0
    /\ calls = <<>>
    /\ out = <<>>
    /\ js = <<>>
    /\ exit_status = NoExit

Init == InitOf(Programs)

Next ==
    \/ S1_Parse
    \/ S1_Open
    \/ S1_Version
    \/ S1_Inquiry
    \/ S1_Tur
    \/ S1_Close
    \/ RC_Start
    \/ RC_Inhex
    \/ RC_Open
    \/ RC_Readcap10
    \/ RC_Readcap16
    \/ RC_Fini
    \/ RQ_Start
    \/ RQ_Open
    \/ RQ_Construct
    \/ RQ_Iter
    \/ RQ_ProgressIter
    \/ RQ_Finish

Spec == Init /\ [][Next]_vars

\* The runs of one utility
NextSimple1 ==
    S1_Parse \/ S1_Open \/ S1_Version \/ S1_Inquiry \/ S1_Tur \/ S1_Close

NextReadcap ==
    RC_Start \/ RC_Inhex \/ RC_Open \/ RC_Readcap10 \/ RC_Readcap16 \/ RC_Fini

NextRequests ==
    \/ RQ_Start \/ RQ_Open \/ RQ_Construct \/ RQ_Iter \/ RQ_ProgressIter
    \/ RQ_Finish

SpecSimple1 == InitOf({"sg_simple1"}) /\ [][NextSimple1]_vars
SpecReadcap == InitOf({"sg_readcap"}) /\ [][NextReadcap]_vars
SpecRequests == InitOf({"sg_requests"}) /\ [][NextRequests]_vars

\* ------------------------------------------------------------ properties

Done == pc = "done"

\* The positions of the SCSI commands in the call log, and the commands
CmdIdx == {i \in 1..Len(calls) : IsCmd(calls[i])}
CmdSeq == SelectSeq(calls, IsCmd)

MaxOf(S) == CHOOSE x \in S : \A y \in S : y <= x

\* Call n uses a descriptor that an earlier open returned and that no call
\* in between has closed
OnOpenDescriptor(n) ==
    /\ OpenAfter(calls, n - 1) = 1
    /\ \E m \in 1..(n - 1) :
          /\ IsOkOpen(calls[m]) /\ calls[m].fd = calls[n].fd
          /\ \A k \in (m + 1)..(n - 1) : ~IsClose(calls[k]) /\ ~IsOpen(calls[k])

\* No command and no open follows call i
NothingAfter(i) ==
    \A j \in (i + 1)..Len(calls) : ~IsCmd(calls[j]) /\ ~IsOpen(calls[j])

\* C1: in the three utilities every descriptor that was opened successfully
\* is closed exactly once before the process exits and none is closed twice:
\* at most one descriptor is open at any time, every close is of the
\* descriptor opened last and not closed since, and none is open once the
\* run is over.
C1_ClosedExactlyOnce ==
    /\ \A n \in 0..Len(calls) : OpenAfter(calls, n) \in {0, 1}
    /\ \A n \in 1..Len(calls) : IsClose(calls[n]) => OnOpenDescriptor(n)
    /\ Done => OpenAfter(calls, Len(calls)) = 0

\* A run of sg_readcap that opened the device twice and closed it twice
C1_Witness ==
    /\ Done
    /\ Cardinality({i \in 1..Len(calls) : IsOkOpen(calls[i])}) = 2
    /\ Cardinality({i \in 1..Len(calls) : IsClose(calls[i])}) = 2

\* C2 as stated: once a submitted command, or the call submitting it, has
\* failed, no further command is submitted and no device is re-opened.
C2_NoRecovery ==
    \A i \in CmdIdx :
        calls[i].r \in {"error_cat", "syscall_fail"} => NothingAfter(i)

\* C2, amended: after a failure of the submitting call (in any utility), and
\* in sg_readcap after any failed READ CAPACITY command other than a
\* READ CAPACITY (10) that ends in "illegal opcode", no further command is
\* submitted, no device is re-opened and the exit status is not 0.
C2_AbortsAfterFailure ==
    \A i \in CmdIdx :
        (\/ calls[i].r = "syscall_fail"
         \/ /\ prog = "sg_readcap" /\ calls[i].r = "error_cat"
            /\ ~(/\ calls[i].name = "READ CAPACITY (10)"
                 /\ calls[i].res = SG_LIB_CAT_INVALID_OP))
        => NothingAfter(i) /\ (Done => exit_status # 0)

\* A run of sg_requests asked for two commands that ended when the call
\* submitting the first one failed
C2_Witness ==
    /\ Done /\ prog = "sg_requests" /\ op.num_rs = 2
    /\ Len(CmdSeq) = 1 /\ CmdSeq[1].r = "syscall_fail"

\* C3 as stated: the exit status is 0 only if every submitted command was
\* clean or recovered.
C3_ExitTellsOutcome ==
    Done /\ exit_status = 0 =>
        \A i \in CmdIdx : calls[i].r \in {"clean", "recovered"}

\* C3, amended: sg_readcap exits non-zero whenever the last command it
\* submitted did not complete cleanly; sg_requests exits non-zero when a
\* submitting call fails and, when NUM is 1, when the command ends in a
\* sense category other than recovered, no-sense and unit-attention;
\* sg_simple1 exits 0 exactly when the ioctl of TEST UNIT READY returned.
C3_ExitStatus ==
    Done =>
        /\ (prog = "sg_readcap" /\ CmdIdx # {}
            /\ calls[MaxOf(CmdIdx)].r # "clean") => exit_status # 0
        /\ (prog = "sg_requests"
            /\ \E i \in CmdIdx : calls[i].r = "syscall_fail") => exit_status # 0
        /\ (prog = "sg_requests" /\ op.num_rs = 1
            /\ (\E i \in CmdIdx : calls[i].r = "error_cat")
            /\ loc.sense_cat # SG_LIB_CAT_UNIT_ATTENTION) => exit_status # 0
        /\ prog = "sg_simple1" =>
              (exit_status = 0 <=>
                  \E i \in CmdIdx : /\ calls[i].name = "TEST UNIT READY"
                                    /\ calls[i].r # "syscall_fail")

\* A run of sg_requests whose only command ended "not ready" and that exits
\* with that category
C3_Witness ==
    /\ Done /\ prog = "sg_requests" /\ op.num_rs = 1
    /\ Len(CmdSeq) = 1 /\ CmdSeq[1].r = "error_cat"
    /\ loc.sense_cat = SG_LIB_CAT_NOT_READY
    /\ exit_status = SG_LIB_CAT_NOT_READY

\* The command line is rejected, or asks for help or the version
RC_Rejected ==
    LET r == parse_cmd_line(RC_Op0, argv, env_old) IN
    \/ r.res # 0 \/ r.op.do_help > 0 \/ r.op.version_given
    \/ (r.op.inhex_fn = NULL /\ r.op.device_name = NULL)
    \/ (~r.op.do_pmi /\ ~IsZero(r.op.llba))

RQ_Rejected ==
    LET s == RQ_parse(argv) IN
    \/ s.stop \/ s.op.version_given \/ s.op.device_name = NULL
    \/ ((s.op.do_raw \/ s.op.do_hex > 0) /\ (s.op.do_progress \/ s.op.do_time))

S1_Rejected == S1_ParseArgs(argv, 1, <<>>, 0).file_name = <<>>

Rejected ==
    CASE prog = "sg_simple1" -> S1_Rejected
      [] prog = "sg_readcap" -> RC_Rejected
      [] prog = "sg_requests" -> RQ_Rejected

\* C4: the steps run in the order parse, open, submit, close: nothing is
\* opened before the command line is parsed, a run whose command line is
\* rejected or asks for help or the version opens no device and submits
\* nothing, and every command is submitted on a descriptor that was opened
\* successfully and is not yet closed.
C4_ParseOpenSubmitClose ==
    /\ pc = "parse" => calls = <<>>
    /\ Rejected =>
          \A i \in 1..Len(calls) : ~IsOpen(calls[i]) /\ ~IsCmd(calls[i])
    /\ \A i \in CmdIdx : OnOpenDescriptor(i)

\* A run of sg_readcap that submitted both commands, the second one on a
\* descriptor opened after the first one was closed
C4_Witness ==
    /\ Done /\ prog = "sg_readcap" /\ ~Rejected
    /\ Len(CmdSeq) = 2
    /\ \E i \in 1..Len(calls) :
          IsClose(calls[i]) /\ i > MaxOf(CmdIdx \ {MaxOf(CmdIdx)})
                            /\ i < MaxOf(CmdIdx)

\* The big-endian 32 bit value of the four bytes of buf after offset off
BE32At(buf, off) ==
    <<buf[off + 1] * 256 + buf[off + 2], buf[off + 3] * 256 + buf[off + 4]>>

\* The last call was a READ CAPACITY (10) that completed cleanly, and its
\* reply is decoded (neither --hex nor --raw)
Rcap10Decoded ==
    /\ prog = "sg_readcap" /\ calls # <<>>
    /\ IsCmd(calls[Len(calls)])
    /\ calls[Len(calls)].name = "READ CAPACITY (10)"
    /\ calls[Len(calls)].r = "clean"
    /\ ~(op.do_hex > 0 \/ op.do_raw)

\* Some line of stdout shows the number v, in decimal or in hexadecimal
Shown(v) ==
    \E i \in 1..Len(out) : \E k \in 1..Len(out[i].v) :
        out[i].v[k] = FormatDec(v) \/ out[i].v[k] = FormatHex(v)

\* C5 as stated: for every READ CAPACITY (10) response the last block
\* address is the big-endian value of bytes 0..3 and the block length that
\* of bytes 4..7, and these values are in the text output and in the JSON
\* fields returned_logical_block_address and logical_block_length_in_bytes.
C5_Rcap10Reported ==
    Rcap10Decoded =>
        IF loc.as_json
        THEN /\ JsNv(rc10_pd_sn, rlba_sn, BE32At(loc.resp_buff, 0))
                    \in {js[i] : i \in 1..Len(js)}
             /\ JsNv(rc10_pd_sn, lblib_sn, BE32At(loc.resp_buff, 4))
                    \in {js[i] : i \in 1..Len(js)}
        ELSE /\ Shown(BE32At(loc.resp_buff, 0))
             /\ Shown(BE32At(loc.resp_buff, 4))

\* C5, amended: for every READ CAPACITY (10) response that is decoded the
\* JSON fields returned_logical_block_address and
\* logical_block_length_in_bytes hold the big-endian values of bytes 0..3
\* and 4..7; the text output shows the two values when the last block
\* address is not 0xffffffff, with --brief the number of blocks (last block
\* address + 1) in place of the address; for 0xffffffff the text output is
\* only the notice that READ CAPACITY (16) is tried next.
C5_Rcap10Decode ==
    Rcap10Decoded =>
        LET last == BE32At(loc.resp_buff, 0)
            size == BE32At(loc.resp_buff, 4)
        IN
        IF loc.as_json
        THEN /\ js = <<JsNv(rc10_pd_sn, rlba_sn, last),
                       JsNv(rc10_pd_sn, lblib_sn, size)>>
             /\ out = <<>>
        ELSE /\ js = <<>>
             /\ IF last = U32_MAX THEN out = RC_TooLarge
                ELSE IF op.do_brief
                THEN out = <<OutLine("brief", FormatHex(PlusOne(last)),
                                     FormatHex(size))>>
                ELSE /\ Len(out) >= 3
                     /\ out[2] = IF op.do_pmi
                                 THEN OutLine("pmi", FormatHex(op.llba),
                                              FormatHex(last))
                                 ELSE OutLine("last_lba", FormatDec(last),
                                              FormatDec(PlusOne(last)))
                     /\ out[3] = OutLine("block_length", FormatDec(size), <<>>)

\* The reply 01 02 03 04 05 06 07 08 was decoded and printed as text
C5_Witness ==
    /\ Rcap10Decoded /\ ~loc.as_json /\ ~op.do_brief /\ ~op.do_pmi
    /\ SubSeq(loc.resp_buff, 1, RCAP_REPLY_LEN) = <<1, 2, 3, 4, 5, 6, 7, 8>>
    /\ out[2] = OutLine("last_lba",
                        <<"1", "6", "9", "0", "9", "0", "6", "0">>,
                        <<"1", "6", "9", "0", "9", "0", "6", "1">>)

\* --zbc (-z) is on the command line
ZbcGiven == \E k \in 1..Len(argv) : argv[k] = <<"-", "z">>

\* C6: in sg_readcap --zbc implies --16: in a run given --zbc, whatever the
\* other options and their order, no READ CAPACITY (10) is ever submitted;
\* every command submitted is READ CAPACITY (16).
C6_ZbcImplies16 ==
    (prog = "sg_readcap" /\ ZbcGiven) =>
        \A i \in CmdIdx : calls[i].name = "READ CAPACITY (16)"

\* A run given -z and then --10 that submitted READ CAPACITY (16)
C6_Witness ==
    /\ prog = "sg_readcap" /\ Len(argv) = 3
    /\ argv[1] = <<"-", "z">> /\ argv[2] = <<"-", "-", "1", "0">>
    /\ Len(CmdSeq) = 1 /\ CmdSeq[1].name = "READ CAPACITY (16)"

\* An LBA greater than 0 was given and --pmi was not
LbaWithoutPmi == prog = "sg_readcap" /\ ~IsZero(op.llba) /\ ~op.do_pmi

\* C7 as stated: every run given an LBA greater than 0 without --pmi exits
\* with SG_LIB_CONTRADICT, having opened no device, read no --inhex file and
\* submitted no command.
C7_LbaNeedsPmi ==
    LbaWithoutPmi => calls = <<>> /\ (Done => exit_status = SG_LIB_CONTRADICT)

\* C7, amended: a run given an LBA greater than 0 without --pmi opens no
\* device, reads no --inhex file and submits no command; it exits with
\* SG_LIB_CONTRADICT unless it ends before that check, with
\* SG_LIB_SYNTAX_ERROR (command line in error, neither DEVICE nor --inhex,
\* bad --json argument), with 0 (--help, --version) or with
\* SG_LIB_FILE_ERROR (--raw, and stdout cannot be set to binary mode).
C7_LbaWithoutPmiStops ==
    LbaWithoutPmi =>
        /\ calls = <<>>
        /\ Done =>
              \/ exit_status = SG_LIB_CONTRADICT
              \/ exit_status = SG_LIB_SYNTAX_ERROR
                 /\ (\/ parse_cmd_line(RC_Op0, argv, env_old).res # 0
                     \/ op.do_json
                     \/ (op.inhex_fn = NULL /\ op.device_name = NULL))
              \/ exit_status = 0 /\ (op.do_help > 0 \/ op.version_given)
              \/ exit_status = SG_LIB_FILE_ERROR /\ op.do_raw

\* A run given --inhex and an LBA of 5 that exits with SG_LIB_CONTRADICT
C7_Witness ==
    /\ LbaWithoutPmi /\ Done /\ op.inhex_fn # NULL
    /\ exit_status = SG_LIB_CONTRADICT /\ calls = <<>>

\* C8 as stated, for the runs without JSON output in which every open of
\* the device worked: with --brief and neither --hex nor --raw a run that
\* submitted a command writes exactly one line to stdout, the line of two
\* hex numbers, also when READ CAPACITY (16) follows READ CAPACITY (10).
C8_BriefOneLine ==
    (/\ prog = "sg_readcap" /\ Done /\ op.do_brief /\ ~op.do_json
     /\ ~(op.do_hex > 0 \/ op.do_raw) /\ CmdIdx # {}
     /\ \A i \in 1..Len(calls) : IsOpen(calls[i]) => IsOkOpen(calls[i]))
    => /\ Len(out) = 1
       /\ out[1].line = "brief" /\ Len(out[1].v) = 2

\* A run with --brief that wrote the notice of the fallback to stdout
\* before the line of two numbers
C8_Witness ==
    /\ prog = "sg_readcap" /\ Done /\ op.do_brief /\ ~op.do_json
    /\ ~(op.do_hex > 0 \/ op.do_raw)
    /\ Len(out) = 3 /\ SubSeq(out, 1, 2) = RC_TooLarge
    /\ out[3].line = "brief"

\* The open that returned the descriptor call i uses
OpenOf(i) == calls[MaxOf({m \in 1..(i - 1) : IsOkOpen(calls[m])})]

\* C9 as stated: unless --readonly is given every READ CAPACITY (16) is
\* submitted on a descriptor opened read-write; with --readonly every open
\* is read-only.
C9_Rcap16ReadWrite ==
    prog = "sg_readcap" =>
        /\ ~op.o_readonly =>
              \A i \in CmdIdx :
                  calls[i].name = "READ CAPACITY (16)" => ~OpenOf(i).ro
        /\ op.o_readonly =>
              \A i \in 1..Len(calls) : IsOpen(calls[i]) => calls[i].ro

\* A READ CAPACITY (16) submitted, without --readonly, on the descriptor
\* that was opened read-only for READ CAPACITY (10)
C9_Witness ==
    /\ prog = "sg_readcap" /\ ~op.o_readonly
    /\ Len(CmdSeq) = 2 /\ CmdSeq[2].name = "READ CAPACITY (16)"
    /\ OpenOf(MaxOf(CmdIdx)).ro
    /\ Cardinality({i \in 1..Len(calls) : IsOpen(calls[i])}) = 1

\* The commands carry the packet ids 1, 2, ... in this order
PacketIdsInOrder == \A j \in 1..Len(CmdSeq) : CmdSeq[j].id = j

\* No --progress, fewer than two --error, and no command ended in a
\* transport or OS error
RQ_PlainRun ==
    /\ prog = "sg_requests" /\ Done /\ ~op.do_progress /\ op.do_error < 2
    /\ \A i \in CmdIdx : calls[i].r # "syscall_fail"

\* C10 as stated: such a run, when the device opens, submits exactly NUM
\* commands with the packet ids 1..NUM in increasing order, and NUM < 1 is
\* rejected with SG_LIB_SYNTAX_ERROR.
C10_NumCommands ==
    /\ (RQ_PlainRun /\ \E i \in 1..Len(calls) : IsOkOpen(calls[i]))
       => Len(CmdSeq) = op.num_rs /\ PacketIdsInOrder
    /\ (prog = "sg_requests" /\ Done /\ op.num_rs < 1)
       => exit_status = SG_LIB_SYNTAX_ERROR

\* C10, amended: such a run, when the device opens and the pass-through
\* object is constructed, submits exactly NUM commands (1 without --num)
\* with the packet ids 1..NUM in increasing order; a NUM < 1 that the option
\* loop reaches is rejected with SG_LIB_SYNTAX_ERROR before anything is
\* opened.
C10_NumCommandsSent ==
    /\ (RQ_PlainRun /\ loc.ptvp)
       => Len(CmdSeq) = op.num_rs /\ PacketIdsInOrder
    /\ prog = "sg_requests" => PacketIdsInOrder
    /\ (prog = "sg_requests" /\ Done /\ op.num_rs < 1)
       => exit_status = SG_LIB_SYNTAX_ERROR /\ calls = <<>>

\* A run with --num=2 whose first command ended in an error category and
\* that sent the second one all the same
C10_Witness ==
    /\ RQ_PlainRun /\ loc.ptvp /\ op.num_rs = 2
    /\ Len(CmdSeq) = 2 /\ CmdSeq[1].r = "error_cat"
    /\ CmdSeq[1].id = 1 /\ CmdSeq[2].id = 2

\* The -m options of the command line and the LEN of the last one (0 when
\* there is none)
MaxlenArgs == {k \in 1..Len(argv) : Len(argv[k]) > 2 /\ argv[k][1] = "-"
                                     /\ argv[k][2] = "m"}
LenGiven ==
    IF MaxlenArgs = {} THEN 0
    ELSE sg_get_num(SubSeq(argv[MaxOf(MaxlenArgs)], 3,
                           Len(argv[MaxOf(MaxlenArgs)])))

RQ_LoopRun == prog = "sg_requests" /\ Done /\ ~op.do_progress /\ loc.ptvp

\* The close of the device failed
CloseFailed == calls # <<>> /\ IsClose(calls[Len(calls)])
               /\ calls[Len(calls)].res < 0

\* The exit statuses a run without --status can end with, from what is not
\* parameter data: the result of the last submitting call, the sense
\* category of the autosense, NUM and the result of the close
AutosenseExit ==
    IF loc.n = -1 THEN {SG_LIB_TRANSPORT_ERROR, sg_convert_errno(EIO)}
    ELSE IF loc.n = -2 /\ op.num_rs = 1
            /\ loc.sense_cat \notin {SG_LIB_CAT_RECOVERED, SG_LIB_CAT_NO_SENSE,
                                     SG_LIB_CAT_UNIT_ATTENTION}
    THEN {loc.sense_cat}
    ELSE IF CloseFailed THEN {sg_convert_errno(EBADF)}
    ELSE {0}

\* The parameter data of the last command is NO SENSE with asc = 0 and
\* ascq = 0
NoSenseNothingToReport ==
    /\ sg_err_category_sense(loc.rsBuff, loc.act_din_len) = SG_LIB_CAT_NO_SENSE
    /\ loc.rsBuff.asc = 0 /\ loc.rsBuff.ascq = 0

\* C12 as stated: without --status the exit status does not depend on the
\* parameter data; with --status, when the loop ended with status 0, the
\* exit status is the sense category of the parameter data of the last
\* command, and 0 for NO SENSE with asc = 0 and ascq = 0.
C12_StatusFromData ==
    RQ_LoopRun =>
      /\ ~op.do_status => exit_status \in AutosenseExit
      /\ (op.do_status /\ loc.k = op.num_rs) =>
            exit_status = (IF NoSenseNothingToReport THEN 0
                           ELSE sg_err_category_sense(loc.rsBuff,
                                                      loc.act_din_len))

\* C12, amended: without --status the exit status does not depend on the
\* parameter data; with --status, when the loop ended with status 0, the
\* exit status is the sense category of the parameter data of the last
\* command (SG_LIB_CAT_SENSE when there is none), except that NO SENSE with
\* asc = 0 and ascq = 0 yields 0, which a failed close of the device then
\* replaces by the status of that error.
C12_StatusOnlyWithOption ==
    RQ_LoopRun =>
      /\ ~op.do_status => exit_status \in AutosenseExit
      /\ (op.do_status /\ loc.k = op.num_rs) =>
            exit_status = (IF NoSenseNothingToReport
                           THEN (IF CloseFailed THEN sg_convert_errno(EBADF)
                                 ELSE 0)
                           ELSE sg_err_category_sense(loc.rsBuff,
                                                      loc.act_din_len))
      /\ (op.do_status /\ loc.k < op.num_rs) => exit_status \in AutosenseExit

\* With --status a command that completed cleanly and returned NOT READY
\* parameter data made the exit status SG_LIB_CAT_NOT_READY
C12_Witness ==
    /\ RQ_LoopRun /\ op.do_status /\ loc.k = op.num_rs
    /\ CmdSeq # <<>> /\ CmdSeq[Len(CmdSeq)].r = "clean"
    /\ loc.rsBuff.sense_key = 2
    /\ exit_status = SG_LIB_CAT_NOT_READY

\* The option tok is on the command line
Given(tok) == \E k \in 1..Len(argv) : argv[k] = tok

\* The command line of sg_requests combines --raw or --hex with --progress
\* or --time
RawHexWithProgressTime ==
    /\ prog = "sg_requests"
    /\ Given(<<"-", "r">>) \/ Given(<<"-", "H">>)
    /\ Given(<<"-", "p">>) \/ Given(<<"-", "t">>)

\* C13 as stated: every run of sg_requests that combines --raw or --hex with
\* --progress or --time exits with SG_LIB_CONTRADICT, having opened no
\* device and submitted no command.
C13_RawHexContradicts ==
    RawHexWithProgressTime =>
        calls = <<>> /\ (Done => exit_status = SG_LIB_CONTRADICT)

\* C13, amended: a run of sg_requests that combines --raw or --hex with
\* --progress or --time opens no device and submits no command; it exits
\* with SG_LIB_CONTRADICT unless it ends before that check, with 0 (--help,
\* --version), with SG_LIB_SYNTAX_ERROR (bad option argument, no DEVICE,
\* extra argument) or with SG_LIB_FILE_ERROR (--raw, and stdout cannot be
\* set to binary mode).
C13_ContradictionStops ==
    RawHexWithProgressTime =>
        /\ calls = <<>>
        /\ Done =>
              \/ exit_status = SG_LIB_CONTRADICT
              \/ exit_status = 0
                 /\ (Given(<<"-", "h">>) \/ Given(<<"-", "V">>))
              \/ exit_status = SG_LIB_SYNTAX_ERROR
                 /\ (RQ_parse(argv).res # 0 \/ op.device_name = NULL)
              \/ exit_status = SG_LIB_FILE_ERROR /\ Given(<<"-", "r">>)

\* A run given --hex, --time and a device that exits with
\* SG_LIB_CONTRADICT and has opened nothing
C13_Witness ==
    /\ RawHexWithProgressTime /\ Done
    /\ Given(<<"-", "H">>) /\ Given(<<"-", "t">>) /\ op.device_name # NULL
    /\ exit_status = SG_LIB_CONTRADICT /\ calls = <<>>

\* How many times --error is given: -e counts once and -ee twice
ErrorsGiven ==
    Cardinality({k \in 1..Len(argv) : argv[k] = <<"-", "e">>})
    + 2 * Cardinality({k \in 1..Len(argv) : argv[k] = <<"-", "e", "e">>})

\* The numbers of command errors that the run has written to stdout
CommandErrorsReported ==
    {out[i].v[1] : i \in {j \in 1..Len(out) : out[j].line = "command_errors"}}

\* C14: in sg_requests byte 0 of every submitted cdb is 0xff when --error is
\* given and 0x03 when it is not; when --error is given twice or more no
\* command is submitted at all, and a run without --progress whose loop
\* ran reports NUM command errors (it reports nothing with --raw or --hex)
\* and never another number.
C14_ErrorOption ==
    prog = "sg_requests" =>
      /\ \A i \in CmdIdx :
            calls[i].cdb[1] = (IF ErrorsGiven >= 1 THEN 255 ELSE 3)
      /\ ErrorsGiven >= 2 =>
            /\ CmdSeq = <<>>
            /\ ~op.do_progress =>
                  CommandErrorsReported \subseteq {FormatInt(op.num_rs)}
            /\ (RQ_LoopRun /\ loc.not_raw_hex) =>
                  CommandErrorsReported = {FormatInt(op.num_rs)}

\* A run given --error twice and --num=2 that opened the device, submitted
\* nothing and reported 2 command errors
C14_Witness ==
    /\ RQ_LoopRun /\ ErrorsGiven >= 2 /\ op.num_rs = 2
    /\ \E i \in 1..Len(calls) : IsOkOpen(calls[i])
    /\ CmdSeq = <<>>
    /\ CommandErrorsReported = {<<"2">>}

\* The last call was a READ CAPACITY (16) that completed cleanly, and its
\* reply is decoded in full (no --hex, no --raw, no --brief)
Rcap16Decoded ==
    /\ prog = "sg_readcap" /\ calls # <<>>
    /\ IsCmd(calls[Len(calls)])
    /\ calls[Len(calls)].name = "READ CAPACITY (16)"
    /\ calls[Len(calls)].r = "clean"
    /\ ~(op.do_hex > 0 \/ op.do_raw \/ op.do_brief)

\* Byte k of the parameter block, counted from 0, and its fields as the
\* claim lays them out
PB(k) == loc.resp_buff[k + 1]
PB_last_lba ==
    <<PB(0) * 256 + PB(1), PB(2) * 256 + PB(3),
      PB(4) * 256 + PB(5), PB(6) * 256 + PB(7)>>
PB_block_length == <<PB(8) * 256 + PB(9), PB(10) * 256 + PB(11)>>
PB_prot_en == PB(12) % 2
PB_p_type == (PB(12) \div 2) % 8
PB_rc_basis == (PB(12) \div 16) % 4
PB_p_i_exponent == PB(13) \div 16
PB_exponent == PB(13) % 16
PB_lbpme == PB(14) \div 128
PB_lbprz == (PB(14) \div 64) % 2
PB_lowest_aligned == (PB(14) % 64) * 256 + PB(15)

\* block length x 2^exponent, exactly: on 64 bits, which always hold it
PB_phys_block_length == MulAdd(<<0, 0>> \o PB_block_length, Pow2(PB_exponent), 0)

\* Value number k of some line tagged tag on stdout is the string digits
ShownAs(tag, k, digits) ==
    \E i \in 1..Len(out) :
        out[i].line = tag /\ Len(out[i].v) >= k /\ out[i].v[k] = digits

\* The JSON output has the field name with the value v
JsField(name, v) == JsNv(rc16_pd_sn, name, v) \in {js[i] : i \in 1..Len(js)}

\* The fields of the parameter block are reported with the values the
\* claim gives: as JSON fields, or in the lines of the text output
\* (rc_basis in the text only with --zbc)
Rcap16Fields ==
    IF loc.as_json
    THEN /\ JsField(rlba_sn, PB_last_lba)
         /\ JsField(lblib_sn, PB_block_length)
         /\ JsField("prot_en", U32(PB_prot_en))
         /\ JsField("p_type", U32(PB_p_type))
         /\ JsField("rc_basis", U32(PB_rc_basis))
         /\ JsField("p_i_exponent", U32(PB_p_i_exponent))
         /\ JsField("logical_blocks_per_physical_block_exponent",
                    U32(PB_exponent))
         /\ JsField("lbpme", U32(PB_lbpme))
         /\ JsField("lbprz", U32(PB_lbprz))
         /\ JsField("lowest_aligned_logical_block_address",
                    U32(PB_lowest_aligned))
    ELSE /\ IF op.do_pmi THEN ShownAs("pmi", 2, FormatHex(PB_last_lba))
            ELSE ShownAs("last_lba", 1, FormatDec(PB_last_lba))
         /\ ShownAs("block_length", 1, FormatDec(PB_block_length))
         /\ ShownAs("protection", 1, FormatInt(PB_prot_en))
         /\ ShownAs("protection", 2, FormatInt(PB_p_type))
         /\ ShownAs("protection", 3, FormatInt(PB_p_i_exponent))
         /\ op.do_zbc => ShownAs("rc_basis", 1, FormatInt(PB_rc_basis))
         /\ ShownAs("lbppbe", 1, FormatInt(PB_exponent))
         /\ ShownAs("provisioning", 1, FormatInt(PB_lbpme))
         /\ ShownAs("provisioning", 2, FormatInt(PB_lbprz))
         /\ ShownAs("lowest_aligned_lba", 1, FormatInt(PB_lowest_aligned))

\* The text output reports a physical block length
PhysReported == \E i \in 1..Len(out) : out[i].line = "lbppbe"
                                       /\ Len(out[i].v) >= 2

\* The layout alone: every field of a decoded parameter block
\* is reported with the value of the bits the claim names.
Rcap16Layout == Rcap16Decoded => Rcap16Fields

\* C15 as stated: every field of a decoded READ CAPACITY (16) parameter
\* block is reported with the value of the bits the claim names, and the
\* physical block length that is reported is block length x 2^exponent.
C15_Rcap16Decode ==
    Rcap16Decoded =>
        /\ Rcap16Fields
        /\ PhysReported =>
              ShownAs("lbppbe", 2, FormatDec(PB_phys_block_length))

\* The parameter block with block length 0x80000000 and exponent 1 was
\* decoded, and the physical block length reported for it is 0
C15_Witness ==
    /\ Rcap16Decoded /\ ~loc.as_json
    /\ PB_block_length = <<32768, 0>> /\ PB_exponent = 1
    /\ ShownAs("lbppbe", 2, <<"0">>)

====
